---- MODULE Spec2Model ----
(***************************************************************************)
(* A model of harec's semantic checker, src/src/check.c: the declaration   *)
(* scan, the expression check and the driver check().                      *)
(*                                                                         *)
(* The checker is a recursive descent over the AST, so check_expression    *)
(* and its handlers are RECURSIVE operators that thread the checker        *)
(* context and return the typed expression.  The state machine is the     *)
(* driver: check() scans every declaration of every subunit, then checks   *)
(* every declaration; one action per step of those loops.                  *)
(*                                                                         *)
(* Pointers: a struct is a record, the null pointer is NULL, a scope is    *)
(* addressed by its index in ctx.scopes (0 is the null scope pointer), an  *)
(* interned type is its structure (the type store hash-conses, so pointer  *)
(* equality of types is structural equality).                              *)
(***************************************************************************)
EXTENDS Integers, Sequences, FiniteSets, TLC

VARIABLES
    aunit,      \* the input: struct ast_unit, a sequence of subunits
    unit,       \* the output: struct unit (ns, declarations)
    ctx,        \* struct context, with the scopes it has allocated
    pc,         \* where check() is: "start", "scan", "check", "done", "aborted"
    su,         \* index of the subunit the current pass is at
    di,         \* index of the next declaration in that subunit (0: not entered)
    subunit_scopes, \* check(): the scopes popped by the first pass
    error       \* the diagnostic of the expect() that aborted the run, or OK

vars == <<aunit, unit, ctx, pc, su, di, subunit_scopes, error>>

-----------------------------------------------------------------------------
(* Basic values *)

NULL == [null |-> TRUE]
OK == ""
NoLabel == ""
ZeroedType == "EXPR_ACCESS"  \* expr->type / scope->type of a calloc'ed struct
SIZE_UNDEFINED == 0 - 1
TYPE_CONST == "TYPE_CONST"

Last(s) == s[Len(s)]
Front(s) == SubSeq(s, 1, Len(s) - 1)

-----------------------------------------------------------------------------
(* Identifiers: the namespace chain, outermost first, then the name *)

identifier_eq(a, b) == a = b

\* identifier_dup(out, in), then out->ns is overwritten by a copy of ctx->ns
mkident(c, in) ==
    IF c.ns # <<>> THEN c.ns \o <<Last(in)>> ELSE in

-----------------------------------------------------------------------------
(* Types and the type store *)

builtin(storage, flags) == [storage |-> storage, flags |-> flags]
builtin_type_void == builtin("VOID", {})
builtin_type_bool == builtin("BOOL", {})
builtin_type_int == builtin("INT", {})
builtin_type_u8 == builtin("U8", {})
builtin_type_size == builtin("SIZE", {})
builtin_type_null == builtin("NULL", {})
builtin_type_str == builtin("STRING", {})
builtin_type_const_str == builtin("STRING", {TYPE_CONST})

builtin_type_for_storage(storage, is_const) ==
    builtin(storage, IF is_const THEN {TYPE_CONST} ELSE {})

type_store_lookup_with_flags(type, flags) == [type EXCEPT !.flags = flags]

type_store_lookup_pointer(referent, ptrflags) ==
    [storage |-> "POINTER", flags |-> {},
     pointer |-> [referent |-> referent, flags |-> ptrflags]]

type_store_lookup_array(members, len) ==
    [storage |-> "ARRAY", flags |-> {},
     array |-> [members |-> members, length |-> len]]

type_store_lookup_slice(members) ==
    [storage |-> "SLICE", flags |-> {},
     array |-> [members |-> members, length |-> SIZE_UNDEFINED]]

\* type->array.members; the union of a type with no array payload is zeroed
array_members(type) ==
    IF "array" \in DOMAIN type THEN type.array.members ELSE NULL

RECURSIVE type_size(_)
type_size(type) ==
    CASE type.storage \in {"VOID"} -> 0
      [] type.storage \in {"BOOL", "U8"} -> 1
      [] type.storage \in {"INT"} -> 4
      [] type.storage \in {"SIZE", "POINTER", "NULL"} -> 8
      [] type.storage \in {"STRING", "SLICE"} -> 24
      [] type.storage = "ARRAY" ->
            IF type.array.length = SIZE_UNDEFINED
               \/ type_size(type.array.members) = SIZE_UNDEFINED
            THEN SIZE_UNDEFINED
            ELSE type.array.length * type_size(type.array.members)
      [] type.storage = "ALIAS" -> type_size(type.target)
      [] type.storage = "ENUM" -> 4
      [] type.storage = "STRUCT" -> 8
      [] type.storage = "TAGGED_UNION" -> 16
      [] OTHER -> SIZE_UNDEFINED   \* FUNCTION

type_dereference(type) ==
    IF type.storage # "POINTER" THEN type
    ELSE IF "PTR_NULLABLE" \in type.pointer.flags THEN NULL
    ELSE type.pointer.referent

RECURSIVE type_dealias(_)
type_dealias(type) ==
    IF type.storage = "ALIAS" THEN type_dealias(type.target) ELSE type

type_is_integer(type) ==
    type_dealias(type).storage \in {"INT", "U8", "SIZE", "ENUM"}

type_is_signed(type) ==
    type_dealias(type).storage \in {"INT", "ENUM"}

type_is_numeric(type) ==
    type_dealias(type).storage \in {"INT", "U8", "SIZE", "ENUM"}

strip_flags(type) == [type EXCEPT !.flags = {}]

\* identity (constness aside); null to a nullable pointer; a sized array to
\* an unsized array of the same member type
type_is_assignable(to, from) ==
    \/ strip_flags(to) = strip_flags(from)
    \/ /\ to.storage = "POINTER"
       /\ "PTR_NULLABLE" \in to.pointer.flags
       /\ from.storage = "NULL"
    \/ /\ to.storage = "ARRAY"
       /\ from.storage = "ARRAY"
       /\ to.array.length = SIZE_UNDEFINED
       /\ to.array.members = from.array.members

\* assignability refines castability; integers cast to one another
type_is_castable(to, from) ==
    \/ type_is_assignable(to, from)
    \/ type_is_integer(to) /\ type_is_integer(from)
    \/ type_dealias(from).storage = "TAGGED_UNION"

type_get_field(stype, name) ==
    IF \E i \in 1..Len(stype.fields) : stype.fields[i].name = name
    THEN stype.fields[CHOOSE i \in 1..Len(stype.fields) :
                        stype.fields[i].name = name]
    ELSE NULL

-----------------------------------------------------------------------------
(* Scopes *)

\* scope_push(&ctx->scope, sys): a zeroed scope under the current one
scope_push(c) ==
    [c EXCEPT
        !.scopes = Append(@, [parent |-> c.scope, type |-> ZeroedType,
                              label |-> NoLabel, objects |-> <<>>]),
        !.scope = Len(c.scopes) + 1]

scope_pop(c) == [c EXCEPT !.scope = c.scopes[c.scope].parent]

\* the object scope_insert allocates: its address is (scope, index)
scope_object(c, scope, otype, ident, name, type, value) ==
    [otype |-> otype, ident |-> ident, name |-> name, type |-> type,
     value |-> value, scope |-> scope,
     index |-> Len(c.scopes[scope].objects) + 1]

scope_insert(c, scope, otype, ident, name, type, value) ==
    [c EXCEPT !.scopes[scope].objects =
        Append(@, scope_object(c, scope, otype, ident, name, type, value))]

\* an insert of an existing name overwrites silently: the newest match wins
scope_match(objects, ident) ==
    {i \in 1..Len(objects) :
        identifier_eq(objects[i].ident, ident)
        \/ identifier_eq(objects[i].name, ident)}

RECURSIVE scope_lookup(_, _, _)
scope_lookup(c, scope, ident) ==
    IF scope = 0 THEN NULL
    ELSE LET objects == c.scopes[scope].objects
             found == scope_match(objects, ident)
         IN IF found # {}
            THEN objects[CHOOSE i \in found : \A j \in found : j <= i]
            ELSE scope_lookup(c, c.scopes[scope].parent, ident)

-----------------------------------------------------------------------------
(* The type store's lookup of a syntactic type, and the constant evaluator *)

RECURSIVE type_store_lookup_atype(_, _)
type_store_lookup_atype(c, atype) ==
    CASE atype.storage = "ALIAS" ->
            LET obj == scope_lookup(c, c.scope, atype.alias)
            IN [storage |-> "ALIAS", flags |-> atype.flags,
                alias |-> atype.alias,
                target |-> IF obj = NULL THEN builtin_type_void ELSE obj.type]
      [] atype.storage = "FUNCTION" ->
            LET n == Len(atype.func.params)
                ptype(i) ==
                    LET t == type_store_lookup_atype(c, atype.func.params[i].type)
                    IN IF atype.func.variadism = "VARIADISM_HARE" /\ i = n
                       THEN type_store_lookup_slice(t) ELSE t
            IN [storage |-> "FUNCTION", flags |-> atype.flags,
                func |-> [result |-> type_store_lookup_atype(c, atype.func.result),
                          params |-> [i \in 1..n |-> ptype(i)],
                          variadism |-> atype.func.variadism]]
      [] atype.storage = "POINTER" ->
            [atype EXCEPT !.pointer.referent = type_store_lookup_atype(c, @)]
      [] atype.storage \in {"ARRAY", "SLICE"} ->
            [atype EXCEPT !.array.members = type_store_lookup_atype(c, @)]
      [] atype.storage = "STRUCT" ->
            [atype EXCEPT !.fields =
                [i \in 1..Len(@) |->
                    [name |-> @[i].name,
                     type |-> type_store_lookup_atype(c, @[i].type)]]]
      [] OTHER -> atype

\* eval_expr(ctx, in, out): constants and plain casts of constants evaluate
RECURSIVE eval_expr(_)
eval_expr(in) ==
    CASE in.type = "EXPR_CONSTANT" -> [r |-> "EVAL_OK", value |-> in]
      [] in.type = "EXPR_CAST" /\ in.kind = "C_CAST" ->
            LET v == eval_expr(in.value)
            IN IF v.r = "EVAL_OK"
               THEN [r |-> "EVAL_OK",
                     value |-> [v.value EXCEPT !.result = in.result]]
               ELSE v
      [] OTHER -> [r |-> "EVAL_ERR", value |-> NULL]

-----------------------------------------------------------------------------
(* Typed expressions.  A node carries type, result and terminates, and the  *)
(* fields of its kind; a handler returns [ctx, expr, err], err the message  *)
(* of the expect() that failed (the process has aborted) or OK.             *)

Ret(c, expr) == [ctx |-> c, expr |-> expr, err |-> OK]
Fail(c, msg) == [ctx |-> c, expr |-> NULL, err |-> msg]

\* the outcome of reading through a null result pointer
SIGSEGV == "SIGSEGV"
\* the outcome of a failed assert()
SIGABRT == "Assertion failed"


\* a lowering that hands the expression back whatever its result is
lower_implicit_cast_never(to, expr) == expr

lower_implicit_cast(to, expr) ==
    IF to = expr.result THEN expr
    ELSE [type |-> "EXPR_CAST", result |-> to, terminates |-> expr.terminates,
          kind |-> "C_CAST", value |-> expr, secondary |-> NULL]

RECURSIVE check_expression(_, _, _)

-----------------------------------------------------------------------------
(* access *)

\* identifier_unparse_static: the names of an identifier joined by "::"
RECURSIVE identifier_unparse_static(_)
identifier_unparse_static(ident) ==
    IF Len(ident) = 1 THEN ident[1]
    ELSE identifier_unparse_static(Front(ident)) \o "::" \o Last(ident)

\* "Unknown object '%s'" of an identifier
unknown_object(ident) ==
    "Unknown object '" \o identifier_unparse_static(ident) \o "'"

\* an access that refers to the object of a constant like any other
access_identifier_object(obj) ==
    [type |-> "EXPR_ACCESS", result |-> obj.type, terminates |-> FALSE,
     access_type |-> "ACCESS_IDENTIFIER", object |-> obj]

\* the switch on obj->otype of an identifier access
access_identifier(obj) ==
    CASE obj.otype = "O_CONST" -> obj.value
      [] obj.otype \in {"O_BIND", "O_DECL"} ->
            [type |-> "EXPR_ACCESS", result |-> obj.type, terminates |-> FALSE,
             access_type |-> "ACCESS_IDENTIFIER", object |-> obj]

check_expr_access(c, aexpr, hint) ==
    CASE aexpr.access_type = "ACCESS_IDENTIFIER" ->
            LET obj == scope_lookup(c, c.scope, aexpr.ident)
            IN IF obj = NULL THEN Fail(c, unknown_object(aexpr.ident))
               ELSE IF obj.otype = "O_TYPE"
               THEN Fail(c, "Expected identifier, got type")
               ELSE Ret(c, access_identifier(obj))
      [] aexpr.access_type = "ACCESS_INDEX" ->
            LET a == check_expression(c, aexpr.array, NULL) IN
            IF a.err # OK THEN a ELSE
            LET i == check_expression(a.ctx, aexpr.index, NULL) IN
            IF i.err # OK THEN i ELSE
            IF a.expr.result = NULL \/ i.expr.result = NULL
            THEN Fail(i.ctx, SIGSEGV) ELSE
            LET atype == type_dereference(a.expr.result)
                itype == type_dealias(i.expr.result)
            IN IF atype = NULL
               THEN Fail(i.ctx, "Cannot dereference nullable pointer for indexing")
               ELSE IF atype.storage \notin {"ARRAY", "SLICE"}
               THEN Fail(i.ctx, "Cannot index non-array, non-slice %s object")
               ELSE IF ~type_is_integer(itype)
               THEN Fail(i.ctx, "Cannot use non-integer %s type as slice/array index")
               ELSE Ret(i.ctx,
                    [type |-> "EXPR_ACCESS",
                     result |-> type_store_lookup_with_flags(atype.array.members,
                            atype.flags \cup atype.array.members.flags),
                     terminates |-> FALSE,
                     access_type |-> "ACCESS_INDEX",
                     array |-> a.expr,
                     index |-> lower_implicit_cast(builtin_type_size, i.expr)])
      [] aexpr.access_type = "ACCESS_FIELD" ->
            LET s == check_expression(c, aexpr.struct, NULL) IN
            IF s.err # OK THEN s ELSE
            IF s.expr.result = NULL THEN Fail(s.ctx, SIGSEGV) ELSE
            LET stype == type_dereference(s.expr.result) IN
            IF stype = NULL
            THEN Fail(s.ctx, "Cannot dereference nullable pointer for field selection")
            ELSE IF stype.storage \notin {"STRUCT", "UNION"}
            THEN Fail(s.ctx, "Cannot index non-struct, non-union object")
            ELSE LET field == type_get_field(stype, aexpr.field) IN
                 IF field = NULL THEN Fail(s.ctx, "No such struct field '%s'")
                 ELSE Ret(s.ctx,
                    [type |-> "EXPR_ACCESS", result |-> field.type,
                     terminates |-> FALSE, access_type |-> "ACCESS_FIELD",
                     struct |-> s.expr, field |-> field])

-----------------------------------------------------------------------------
(* assert *)

Digit(d) == <<"0", "1", "2", "3", "4", "5", "6", "7", "8", "9">>[d + 1]

\* printf's %d of a non-negative int, as a sequence of characters
RECURSIVE fmt_d(_)
fmt_d(n) == IF n < 10 THEN <<Digit(n)>> ELSE fmt_d(n \div 10) \o <<Digit(n % 10)>>

AssertionFailed ==
    <<"A", "s", "s", "e", "r", "t", "i", "o", "n", " ",
      "f", "a", "i", "l", "e", "d", ":", " ">>

\* the full output of "Assertion failed: %s:%d:%d"
assert_format(loc) ==
    AssertionFailed \o loc.path \o <<":">> \o fmt_d(loc.lineno)
        \o <<":">> \o fmt_d(loc.colno)

\* snprintf(s, size, ...) into a zeroed buffer: at most size - 1 characters
\* are written before the terminating NUL; the C string left in s
snprintf(size, text) ==
    IF size = 0 THEN <<>>
    ELSE SubSeq(text, 1, IF Len(text) < size - 1 THEN Len(text) ELSE size - 1)

\* the message synthesised for an assert without one
assert_message(loc) ==
    LET n == Len(assert_format(loc))
        s == snprintf(n, assert_format(loc))
    IN [type |-> "EXPR_CONSTANT", result |-> builtin_type_const_str,
        terminates |-> FALSE,
        constant |-> [string |-> [value |-> s, len |-> n]]]

check_expr_assert(c, aexpr, hint) ==
    LET cond == IF aexpr.cond # NULL
                THEN check_expression(c, aexpr.cond, builtin_type_bool)
                ELSE Ret(c, NULL)
    IN
    IF cond.err # OK THEN cond ELSE
    IF aexpr.cond # NULL /\ cond.expr.result = NULL
    THEN Fail(cond.ctx, SIGSEGV) ELSE
    IF aexpr.cond # NULL /\ cond.expr.result.storage # "BOOL"
    THEN Fail(cond.ctx, "Assertion condition must be boolean") ELSE
    LET msg == IF aexpr.message # NULL
               THEN check_expression(cond.ctx, aexpr.message, builtin_type_str)
               ELSE Ret(cond.ctx, assert_message(aexpr.loc))
    IN
    IF msg.err # OK THEN msg ELSE
    IF msg.expr.result = NULL THEN Fail(msg.ctx, SIGSEGV) ELSE
    IF msg.expr.result.storage # "STRING"
    THEN Fail(msg.ctx, "Assertion message must be string") ELSE
    Ret(msg.ctx,
        [type |-> "EXPR_ASSERT", result |-> builtin_type_void,
         terminates |-> (aexpr.cond = NULL),
         cond |-> cond.expr, message |-> msg.expr])

-----------------------------------------------------------------------------
(* assign *)

check_expr_assign(c, aexpr, hint) ==
    LET object == check_expression(c, aexpr.object, NULL) IN
    IF object.err # OK THEN object ELSE
    \* a null object->result is passed on as the hint
    LET value == check_expression(object.ctx, aexpr.value, object.expr.result) IN
    IF value.err # OK THEN value ELSE
    IF object.expr.result = NULL THEN Fail(value.ctx, SIGSEGV) ELSE
    LET otype == object.expr.result
        node(target) ==
            [type |-> "EXPR_ASSIGN", result |-> builtin_type_void,
             terminates |-> FALSE, indirect |-> aexpr.indirect,
             op |-> aexpr.op, object |-> object.expr,
             value |-> lower_implicit_cast(target, value.expr)]
    IN
    IF aexpr.indirect
    THEN IF otype.storage # "POINTER"
         THEN Fail(value.ctx, "Cannot dereference non-pointer type for assignment")
         ELSE IF "PTR_NULLABLE" \in otype.pointer.flags
         THEN Fail(value.ctx, "Cannot dereference nullable pointer type")
         ELSE IF value.expr.result = NULL THEN Fail(value.ctx, SIGSEGV)
         ELSE IF ~type_is_assignable(otype.pointer.referent, value.expr.result)
         THEN Fail(value.ctx, "Value type is not assignable to pointer type")
         ELSE Ret(value.ctx, node(otype.pointer.referent))
    ELSE IF object.expr.type # "EXPR_ACCESS" THEN Fail(value.ctx, SIGABRT)
         ELSE IF TYPE_CONST \in otype.flags
         THEN Fail(value.ctx, "Cannot assign to const object")
         ELSE IF value.expr.result = NULL THEN Fail(value.ctx, SIGSEGV)
         ELSE IF ~type_is_assignable(otype, value.expr.result)
         THEN Fail(value.ctx, "rvalue type is not assignable to lvalue")
         ELSE Ret(value.ctx, node(otype))

-----------------------------------------------------------------------------
(* binarithm *)

NumericArithmetic ==
    {"BIN_BAND", "BIN_BOR", "BIN_DIV", "BIN_LSHIFT", "BIN_MINUS",
     "BIN_MODULO", "BIN_PLUS", "BIN_RSHIFT", "BIN_TIMES", "BIN_BXOR"}

LogicalArithmetic ==
    {"BIN_GREATER", "BIN_GREATEREQ", "BIN_LAND", "BIN_LEQUAL", "BIN_LESS",
     "BIN_LESSEQ", "BIN_LOR", "BIN_LXOR", "BIN_NEQUAL"}

check_expr_binarithm(c, aexpr, hint) ==
    LET lvalue == check_expression(c, aexpr.lvalue, NULL) IN
    IF lvalue.err # OK THEN lvalue ELSE
    LET rvalue == check_expression(lvalue.ctx, aexpr.rvalue, NULL) IN
    IF rvalue.err # OK THEN rvalue ELSE
    IF lvalue.expr.result = NULL \/ rvalue.expr.result = NULL
    THEN Fail(rvalue.ctx, SIGSEGV) ELSE
    IF lvalue.expr.result.storage # rvalue.expr.result.storage
    THEN Fail(rvalue.ctx, SIGABRT) ELSE
    Ret(rvalue.ctx,
        [type |-> "EXPR_BINARITHM",
         result |-> IF aexpr.op \in NumericArithmetic
                    THEN lvalue.expr.result ELSE builtin_type_bool,
         terminates |-> FALSE, op |-> aexpr.op,
         lvalue |-> lvalue.expr, rvalue |-> rvalue.expr])

-----------------------------------------------------------------------------
(* binding *)

\* snprintf(gen.name, n + 1, "static.%d", ctx->id)
static_name(id) == <<"static." \o ToString(id)>>

\* a static binding that leaves the counter where it is
static_insert_same(c, ident, type) ==
    LET gen == static_name(c.id)
    IN [ctx |-> scope_insert(c, c.scope, "O_DECL", gen, ident, type, NULL),
        object |-> scope_object(c, c.scope, "O_DECL", gen, ident, type, NULL)]

\* the static branch of a binding: the generated name, the counter stepped,
\* the object inserted under the generated name: [ctx, object]
static_insert(c, ident, type) ==
    LET gen == static_name(c.id)
        c2 == [c EXCEPT !.id = @ + 1]
    IN [ctx |-> scope_insert(c2, c2.scope, "O_DECL", gen, ident, type, NULL),
        object |-> scope_object(c2, c2.scope, "O_DECL", gen, ident, type, NULL)]

\* a binding that leaves the scope without its object
binding_insert_none(c, ident, type) ==
    [ctx |-> c,
     object |-> scope_object(c, c.scope, "O_BIND", ident, ident, type, NULL)]

\* the plain branch of a binding: the object inserted into the current scope
\* under the binding's name: [ctx, object]
binding_insert(c, ident, type) ==
    [ctx |-> scope_insert(c, c.scope, "O_BIND", ident, ident, type, NULL),
     object |-> scope_object(c, c.scope, "O_BIND", ident, ident, type, NULL)]

\* one turn of check_expr_binding's loop; binding is [object, initializer]
check_binding(c, abinding) ==
    LET declared ==
            IF abinding.type # NULL
            THEN LET t == type_store_lookup_atype(c, abinding.type)
                 IN type_store_lookup_with_flags(t, t.flags \cup abinding.flags)
            ELSE NULL
        ident == <<abinding.name>>
        init == check_expression(c, abinding.initializer, declared)
    IN
    IF init.err # OK THEN [ctx |-> init.ctx, binding |-> NULL, err |-> init.err] ELSE
    IF init.expr.result = NULL
    THEN [ctx |-> init.ctx, binding |-> NULL, err |-> SIGSEGV] ELSE
    LET type == IF declared # NULL THEN declared
                ELSE type_store_lookup_with_flags(init.expr.result, abinding.flags)
        initializer == lower_implicit_cast(type, init.expr)
        c1 == init.ctx
    IN
    IF type_size(type) = 0 \/ type_size(type) = SIZE_UNDEFINED
    THEN [ctx |-> c1, binding |-> NULL,
          err |-> "Cannot create binding for type of zero or undefined size"]
    ELSE IF ~type_is_assignable(type, init.expr.result)
    THEN [ctx |-> c1, binding |-> NULL,
          err |-> "Initializer is not assignable to binding type"]
    ELSE IF ~abinding.is_static
    THEN [ctx |-> binding_insert(c1, ident, type).ctx,
          binding |-> [object |-> binding_insert(c1, ident, type).object,
                       initializer |-> initializer],
          err |-> OK]
    ELSE IF eval_expr(init.expr).r # "EVAL_OK"
    THEN [ctx |-> c1, binding |-> NULL,
          err |-> "Unable to evaluate static initializer at compile time"]
    ELSE [ctx |-> static_insert(c1, ident, type).ctx,
          binding |-> [object |-> static_insert(c1, ident, type).object,
                       initializer |-> initializer],
          err |-> OK]

RECURSIVE check_bindings(_, _, _)
check_bindings(c, abindings, done) ==
    IF Len(done) = Len(abindings)
    THEN Ret(c, [type |-> "EXPR_BINDING", result |-> builtin_type_void,
                 terminates |-> FALSE, bindings |-> done])
    ELSE LET b == check_binding(c, abindings[Len(done) + 1])
         IN IF b.err # OK THEN Fail(b.ctx, b.err)
            ELSE check_bindings(b.ctx, abindings, Append(done, b.binding))

check_expr_binding(c, aexpr, hint) == check_bindings(c, aexpr.bindings, <<>>)

-----------------------------------------------------------------------------
(* constant *)

\* the loop of check_expr_array over the items: [ctx, values, type, err]
RECURSIVE check_array_items(_, _, _, _)
check_array_items(c, items, type, values) ==
    IF Len(values) = Len(items)
    THEN [ctx |-> c, values |-> values, type |-> type, err |-> OK]
    ELSE LET v == check_expression(c, items[Len(values) + 1].value, type)
         IN IF v.err # OK
            THEN [ctx |-> v.ctx, values |-> values, type |-> type, err |-> v.err]
            ELSE IF items[Len(values) + 1].expand /\ Len(values) + 1 < Len(items)
            THEN [ctx |-> v.ctx, values |-> values, type |-> type, err |-> SIGABRT]
            ELSE IF type = NULL
            THEN check_array_items(v.ctx, items, v.expr.result,
                                   Append(values, v.expr))
            ELSE IF v.expr.result = NULL
            THEN [ctx |-> v.ctx, values |-> values, type |-> type, err |-> SIGSEGV]
            ELSE IF ~type_is_assignable(type, v.expr.result)
            THEN [ctx |-> v.ctx, values |-> values, type |-> type,
                  err |-> "Array members must be of a uniform type"]
            ELSE check_array_items(v.ctx, items, type,
                    Append(values, lower_implicit_cast(type, v.expr)))

check_expr_array(c, aexpr, hint) ==
    LET items == aexpr.constant.array
        len == Len(items)
        expandable == len > 0 /\ items[len].expand
        r == check_array_items(c, items,
                IF hint # NULL THEN array_members(hint) ELSE NULL, <<>>)
        node(result) ==
            [type |-> "EXPR_CONSTANT", result |-> result, terminates |-> FALSE,
             constant |-> [array |-> r.values, expand |-> expandable]]
    IN
    IF r.err # OK THEN Fail(r.ctx, r.err) ELSE
    IF r.type = NULL THEN Fail(r.ctx, SIGSEGV) ELSE
    IF expandable
    THEN IF hint = NULL THEN Fail(r.ctx, "Cannot expand array for inferred type")
         ELSE IF ~(hint.storage = "ARRAY"
                   /\ hint.array.length # SIZE_UNDEFINED
                   /\ hint.array.length >= len)
         THEN Fail(r.ctx, "Cannot expand array into destination type")
         ELSE Ret(r.ctx, node(type_store_lookup_array(r.type, hint.array.length)))
    ELSE Ret(r.ctx, node(type_store_lookup_array(r.type, len)))

check_expr_constant(c, aexpr, hint) ==
    IF aexpr.constant.storage = "ARRAY" THEN check_expr_array(c, aexpr, hint)
    ELSE IF aexpr.constant.storage \in {"F32", "F64", "STRUCT"}
    THEN Fail(c, SIGABRT)
    ELSE Ret(c, [type |-> "EXPR_CONSTANT",
                 result |-> builtin_type_for_storage(aexpr.constant.storage, FALSE),
                 terminates |-> FALSE,
                 constant |-> aexpr.constant.value])

-----------------------------------------------------------------------------
(* call *)

\* lower_vaargs: the remaining arguments as one array literal, checked
\* against an unbounded array of the variadic member type
\* an array literal of the first of the arguments alone
vaargs_literal_first(aargs) ==
    [type |-> "EXPR_CONSTANT",
     constant |-> [storage |-> "ARRAY",
                   array |-> <<[value |-> aargs[1].value, expand |-> FALSE]>>]]

\* the array literal lower_vaargs builds of the arguments from aarg on
vaargs_literal(aargs) ==
    [type |-> "EXPR_CONSTANT",
     constant |-> [storage |-> "ARRAY",
                   array |-> [i \in 1..Len(aargs) |->
                                [value |-> aargs[i].value, expand |-> FALSE]]]]

lower_vaargs(c, aargs, type) ==
    LET val == vaargs_literal(aargs)
        hint == type_store_lookup_array(type, SIZE_UNDEFINED)
        v == check_expression(c, val, hint)
    IN IF v.err # OK THEN v
       ELSE IF v.expr.result.array.members # type
       THEN Fail(v.ctx, "Argument is not assignable to variadic parameter type")
       ELSE v

\* a call whose arity is never looked at
call_arity_any(aarg, param) == OK

\* the two expects after the loop of check_expr_call; aarg and param tell
\* whether an argument, a parameter is left
call_arity(aarg, param) ==
    IF aarg THEN "Too many parameters for function call"
    ELSE IF param THEN "Not enough parameters for function call"
    ELSE OK

\* the loop of check_expr_call pairing params with aargs: [ctx, args, err]
RECURSIVE check_call_args(_, _, _, _, _)
check_call_args(c, fntype, aargs, i, args) ==
    LET params == fntype.func.params IN
    IF i > Len(params) \/ i > Len(aargs)
    THEN [ctx |-> c, args |-> args,
          err |-> call_arity(i <= Len(aargs), i <= Len(params))]
    ELSE IF i = Len(params) /\ fntype.func.variadism = "VARIADISM_HARE"
            /\ ~aargs[i].variadic
    THEN LET v == lower_vaargs(c, SubSeq(aargs, i, Len(aargs)),
                               array_members(params[i]))
         IN IF v.err # OK THEN [ctx |-> v.ctx, args |-> args, err |-> v.err]
            ELSE [ctx |-> v.ctx,
                  args |-> Append(args, lower_implicit_cast(params[i], v.expr)),
                  err |-> call_arity(FALSE, FALSE)]
    ELSE LET v == check_expression(c, aargs[i].value, params[i])
         IN IF v.err # OK THEN [ctx |-> v.ctx, args |-> args, err |-> v.err]
            ELSE IF v.expr.result = NULL
            THEN [ctx |-> v.ctx, args |-> args, err |-> SIGSEGV]
            ELSE IF ~type_is_assignable(params[i], v.expr.result)
            THEN [ctx |-> v.ctx, args |-> args,
                  err |-> "Argument is not assignable to parameter type"]
            ELSE check_call_args(v.ctx, fntype, aargs, i + 1,
                    Append(args, lower_implicit_cast(params[i], v.expr)))

check_expr_call(c, aexpr, hint) ==
    LET lvalue == check_expression(c, aexpr.lvalue, NULL) IN
    IF lvalue.err # OK THEN lvalue ELSE
    IF lvalue.expr.result = NULL THEN Fail(lvalue.ctx, SIGSEGV) ELSE
    LET fntype == type_dereference(lvalue.expr.result) IN
    IF fntype = NULL
    THEN Fail(lvalue.ctx,
              "Cannot dereference nullable pointer type for function call")
    ELSE IF fntype.storage # "FUNCTION"
    THEN Fail(lvalue.ctx, "Cannot call non-function type")
    ELSE LET a == check_call_args(lvalue.ctx, fntype, aexpr.args, 1, <<>>)
         IN IF a.err # OK THEN Fail(a.ctx, a.err)
            ELSE Ret(a.ctx, [type |-> "EXPR_CALL", result |-> fntype.func.result,
                             terminates |-> FALSE,
                             lvalue |-> lvalue.expr, args |-> a.args])

-----------------------------------------------------------------------------
(* cast *)

check_expr_cast(c, aexpr, hint) ==
    LET secondary == type_store_lookup_atype(c, aexpr.cast_type)
        value == check_expression(c, aexpr.value, secondary)
    IN
    IF value.err # OK THEN value ELSE
    IF value.expr.result = NULL THEN Fail(value.ctx, SIGSEGV) ELSE
    IF ~type_is_castable(secondary, value.expr.result)
    THEN Fail(value.ctx, "Invalid cast") ELSE
    LET primary == type_dealias(value.expr.result)
        node == [type |-> "EXPR_CAST",
                 result |-> IF aexpr.kind = "C_TEST" THEN builtin_type_bool
                            ELSE secondary,
                 terminates |-> FALSE, kind |-> aexpr.kind,
                 value |-> value.expr, secondary |-> secondary]
    IN
    IF aexpr.kind \in {"C_ASSERTION", "C_TEST"}
    THEN IF primary.storage # "TAGGED_UNION"
         THEN Fail(value.ctx, "Expected a tagged union type")
         ELSE IF ~\E i \in 1..Len(primary.tagged) : primary.tagged[i] = secondary
         THEN Fail(value.ctx,
                   "Type is not a valid member of the tagged union type")
         ELSE Ret(value.ctx, node)
    ELSE Ret(value.ctx, node)

-----------------------------------------------------------------------------
(* defer *)

\* a defer that leaves the flag as it finds it
defer_enter_unset(c) == c

\* ctx->deferring = true, before the deferred expression is checked
defer_enter(c) == [c EXCEPT !.deferring = TRUE]

\* ctx->deferring = false, after it
defer_leave(c) == [c EXCEPT !.deferring = FALSE]

check_expr_defer(c, aexpr, hint) ==
    IF c.deferring
    THEN Fail(c, "Cannot defer within another defer expression.")
    ELSE LET d == check_expression(defer_enter(c), aexpr.deferred, NULL)
         IN IF d.err # OK THEN d
            ELSE Ret(defer_leave(d.ctx),
                     [type |-> "EXPR_DEFER", result |-> builtin_type_void,
                      terminates |-> FALSE, deferred |-> d.expr])

-----------------------------------------------------------------------------
(* break, continue *)

\* a walk that stops at the first for scope, whatever the label
RECURSIVE control_scope_innermost(_, _, _)
control_scope_innermost(c, scope, label) ==
    IF scope = 0 THEN 0
    ELSE IF c.scopes[scope].type # "EXPR_FOR"
    THEN control_scope_innermost(c, c.scopes[scope].parent, label)
    ELSE scope

\* the scope the loop of check_expr_control stops at, 0 if it runs off the root
RECURSIVE control_scope(_, _, _)
control_scope(c, scope, label) ==
    IF scope = 0 THEN 0
    ELSE IF c.scopes[scope].type # "EXPR_FOR"
    THEN control_scope(c, c.scopes[scope].parent, label)
    ELSE IF label = NoLabel THEN scope
    ELSE IF c.scopes[scope].label # NoLabel /\ label = c.scopes[scope].label
    THEN scope
    ELSE control_scope(c, c.scopes[scope].parent, label)

\* "Unknown label %s" of a label; NoLabel is the null pointer, and so is
\* the text left without its label here until it is printed
unknown_label(label) == "Unknown label " \o label

check_expr_control(c, aexpr, hint) ==
    IF control_scope(c, c.scope, aexpr.label) = 0
    THEN Fail(c, unknown_label(aexpr.label))
    ELSE Ret(c, [type |-> aexpr.type, result |-> NULL, terminates |-> TRUE,
                 label |-> aexpr.label])

-----------------------------------------------------------------------------
(* for *)

\* some scope from `scope` up carries this label
\* a label that no scope is ever found to carry
for_label_free(c, scope, label) == FALSE

RECURSIVE for_label_taken(_, _, _)
for_label_taken(c, scope, label) ==
    IF scope = 0 THEN FALSE
    ELSE IF c.scopes[scope].label # NoLabel /\ c.scopes[scope].label = label
    THEN TRUE
    ELSE for_label_taken(c, c.scopes[scope].parent, label)

\* scope_push, and the type and label of the new scope
for_enter(c, label) ==
    LET c1 == scope_push(c)
    IN [c1 EXCEPT !.scopes[c1.scope].type = "EXPR_FOR",
                  !.scopes[c1.scope].label = label]

\* a for that leaves its scope open
for_leave_open(c) == c

\* scope_pop at the end of check_expr_for
for_leave(c) == scope_pop(c)

check_expr_for(c, aexpr, hint) ==
    LET c1 == for_enter(c, aexpr.label)
        scope == c1.scope
    IN
    IF aexpr.label # NoLabel
       /\ for_label_taken(c1, c1.scopes[scope].parent, aexpr.label)
    THEN Fail(c1, "for loop label must be unique among its ancestors") ELSE
    LET bindings == IF aexpr.bindings # NULL
                    THEN check_expression(c1, aexpr.bindings, NULL)
                    ELSE Ret(c1, NULL)
    IN
    IF bindings.err # OK THEN bindings ELSE
    LET cond == check_expression(bindings.ctx, aexpr.cond, builtin_type_bool) IN
    IF cond.err # OK THEN cond ELSE
    IF cond.expr.result = NULL THEN Fail(cond.ctx, SIGSEGV) ELSE
    IF cond.expr.result.storage # "BOOL"
    THEN Fail(cond.ctx, "Expected for condition to be boolean") ELSE
    LET afterthought == IF aexpr.afterthought # NULL
                        THEN check_expression(cond.ctx, aexpr.afterthought, NULL)
                        ELSE Ret(cond.ctx, NULL)
    IN
    IF afterthought.err # OK THEN afterthought ELSE
    LET body == check_expression(afterthought.ctx, aexpr.body, NULL) IN
    IF body.err # OK THEN body ELSE
    Ret(for_leave(body.ctx),
        [type |-> "EXPR_FOR", result |-> builtin_type_void,
         terminates |-> FALSE, label |-> aexpr.label, scope |-> scope,
         bindings |-> bindings.expr, cond |-> cond.expr,
         afterthought |-> afterthought.expr, body |-> body.expr])

-----------------------------------------------------------------------------
(* if *)

\* result and terminates of an if with a false branch; result is NULL where
\* the assert on the two branches' results fails
if_else_result(true_branch, false_branch) ==
    IF true_branch.terminates /\ false_branch.terminates
    THEN [result |-> builtin_type_void, terminates |-> FALSE]
    ELSE IF true_branch.terminates
    THEN [result |-> false_branch.result, terminates |-> FALSE]
    ELSE IF false_branch.terminates
    THEN [result |-> true_branch.result, terminates |-> FALSE]
    ELSE [result |-> true_branch.result, terminates |-> FALSE]

\* result and terminates of an if without a false branch
if_result(true_branch) ==
    [result |-> builtin_type_void, terminates |-> true_branch.terminates]

check_expr_if(c, aexpr, hint) ==
    LET cond == check_expression(c, aexpr.cond, builtin_type_bool) IN
    IF cond.err # OK THEN cond ELSE
    LET true_branch == check_expression(cond.ctx, aexpr.true_branch, NULL) IN
    IF true_branch.err # OK THEN true_branch ELSE
    LET false_branch == IF aexpr.false_branch # NULL
                        THEN check_expression(true_branch.ctx,
                                              aexpr.false_branch, NULL)
                        ELSE Ret(true_branch.ctx, NULL)
    IN
    IF false_branch.err # OK THEN false_branch ELSE
    IF aexpr.false_branch # NULL
       /\ ~true_branch.expr.terminates /\ ~false_branch.expr.terminates
       /\ true_branch.expr.result # false_branch.expr.result
    THEN Fail(false_branch.ctx, SIGABRT) ELSE
    IF cond.expr.result = NULL THEN Fail(false_branch.ctx, SIGSEGV) ELSE
    IF cond.expr.result.storage # "BOOL"
    THEN Fail(false_branch.ctx, "Expected if condition to be boolean") ELSE
    LET r == IF aexpr.false_branch # NULL
             THEN if_else_result(true_branch.expr, false_branch.expr)
             ELSE if_result(true_branch.expr)
    IN Ret(false_branch.ctx,
           [type |-> "EXPR_IF", result |-> r.result, terminates |-> r.terminates,
            cond |-> cond.expr, true_branch |-> true_branch.expr,
            false_branch |-> false_branch.expr])

-----------------------------------------------------------------------------
(* expression list *)

\* scope_push, and the type of the new scope
list_enter(c) ==
    LET c1 == scope_push(c)
    IN [c1 EXCEPT !.scopes[c1.scope].type = "EXPR_LIST"]

\* a list that takes its result and terminates from its first expression
list_result_first(scope, exprs, lexpr) ==
    [type |-> "EXPR_LIST", result |-> exprs[1].result,
     terminates |-> exprs[1].terminates, scope |-> scope, exprs |-> exprs]

\* the list node once its last expression lexpr is checked
list_result(scope, exprs, lexpr) ==
    [type |-> "EXPR_LIST", result |-> lexpr.result,
     terminates |-> lexpr.terminates, scope |-> scope, exprs |-> exprs]

\* a list that leaves its scope open
list_leave_open(c) == c

\* scope_pop at the end of check_expr_list
list_leave(c) == scope_pop(c)

RECURSIVE check_list_exprs(_, _, _, _)
check_list_exprs(c, alist, scope, exprs) ==
    LET lexpr == check_expression(c, alist[Len(exprs) + 1], NULL) IN
    IF lexpr.err # OK THEN lexpr
    ELSE IF Len(exprs) + 1 < Len(alist)
    THEN check_list_exprs(lexpr.ctx, alist, scope, Append(exprs, lexpr.expr))
    ELSE Ret(list_leave(lexpr.ctx),
             list_result(scope, Append(exprs, lexpr.expr), lexpr.expr))

check_expr_list(c, aexpr, hint) ==
    LET c1 == list_enter(c)
    IN check_list_exprs(c1, aexpr.exprs, c1.scope, <<>>)

-----------------------------------------------------------------------------
(* measure *)

check_expr_measure(c, aexpr, hint) ==
    CASE aexpr.op = "M_LEN" ->
            LET value == check_expression(c, aexpr.value, NULL) IN
            IF value.err # OK THEN value ELSE
            IF value.expr.result = NULL THEN Fail(value.ctx, SIGSEGV) ELSE
            IF value.expr.result.storage \notin {"ARRAY", "SLICE", "STRING"}
            THEN Fail(value.ctx,
                      "len argument must be of an array, slice, or str type")
            ELSE IF type_size(value.expr.result) = SIZE_UNDEFINED
            THEN Fail(value.ctx,
                      "Cannot take length of array type with undefined length")
            ELSE Ret(value.ctx,
                     [type |-> "EXPR_MEASURE", result |-> builtin_type_size,
                      terminates |-> FALSE, op |-> aexpr.op,
                      value |-> value.expr, measure_type |-> NULL])
      [] aexpr.op = "M_SIZE" ->
            Ret(c, [type |-> "EXPR_MEASURE", result |-> builtin_type_size,
                    terminates |-> FALSE, op |-> aexpr.op, value |-> NULL,
                    measure_type |-> type_store_lookup_atype(c, aexpr.measure_type)])
      [] aexpr.op = "M_OFFSET" -> Fail(c, SIGABRT)

-----------------------------------------------------------------------------
(* return *)

check_expr_return(c, aexpr, hint) ==
    IF aexpr.value = NULL
    THEN Ret(c, [type |-> "EXPR_RETURN", result |-> builtin_type_void,
                 terminates |-> TRUE, value |-> NULL])
    ELSE IF c.current_fntype = NULL THEN Fail(c, SIGSEGV)
    ELSE LET result == c.current_fntype.func.result
             rval == check_expression(c, aexpr.value, result)
         IN IF rval.err # OK THEN rval
            ELSE IF rval.expr.result = NULL THEN Fail(rval.ctx, SIGSEGV)
            ELSE IF ~type_is_assignable(result, rval.expr.result)
            THEN Fail(rval.ctx,
                      "Return value is not assignable to function result type")
            ELSE Ret(rval.ctx,
                     [type |-> "EXPR_RETURN", result |-> builtin_type_void,
                      terminates |-> TRUE,
                      value |-> IF result # rval.expr.result
                                THEN lower_implicit_cast(result, rval.expr)
                                ELSE rval.expr])

-----------------------------------------------------------------------------
(* slice *)

\* an optional slicing operand: checked, required integer, cast to size
slice_operand(c, aoperand) ==
    IF aoperand = NULL THEN Ret(c, NULL)
    ELSE LET v == check_expression(c, aoperand, NULL)
         IN IF v.err # OK THEN v
            ELSE IF v.expr.result = NULL THEN Fail(v.ctx, SIGSEGV)
            ELSE IF ~type_is_integer(type_dealias(v.expr.result))
            THEN Fail(v.ctx, "Cannot use non-integer %s type as slicing operand")
            ELSE Ret(v.ctx, lower_implicit_cast(builtin_type_size, v.expr))

check_expr_slice(c, aexpr, hint) ==
    LET object == check_expression(c, aexpr.object, NULL) IN
    IF object.err # OK THEN object ELSE
    IF object.expr.result = NULL THEN Fail(object.ctx, SIGSEGV) ELSE
    LET atype == type_dereference(object.expr.result) IN
    IF atype = NULL
    THEN Fail(object.ctx, "Cannot dereference nullable pointer for slicing")
    ELSE IF object.expr.result.storage \notin {"SLICE", "ARRAY"}
    THEN Fail(object.ctx, "Cannot slice non-array, non-slice object") ELSE
    LET start == slice_operand(object.ctx, aexpr.start) IN
    IF start.err # OK THEN start ELSE
    LET end == slice_operand(start.ctx, aexpr.end) IN
    IF end.err # OK THEN end ELSE
    Ret(end.ctx,
        [type |-> "EXPR_SLICE",
         result |-> type_store_lookup_slice(object.expr.result.array.members),
         terminates |-> FALSE, object |-> object.expr,
         start |-> start.expr, end |-> end.expr])

-----------------------------------------------------------------------------
(* struct literal *)

\* the first loop of check_expr_struct: the field values, each checked with
\* its declared type as the hint
RECURSIVE check_struct_values(_, _, _)
check_struct_values(c, afields, values) ==
    IF Len(values) = Len(afields)
    THEN [ctx |-> c, values |-> values, err |-> OK]
    ELSE LET af == afields[Len(values) + 1]
             v == check_expression(c, af.initializer,
                                   type_store_lookup_atype(c, af.type))
         IN IF af.is_embedded
            THEN [ctx |-> c, values |-> values, err |-> SIGABRT]
            ELSE IF v.err # OK
            THEN [ctx |-> v.ctx, values |-> values, err |-> v.err]
            ELSE check_struct_values(v.ctx, afields, Append(values, v.expr))

\* the second loop: each value against the field of the interned type
RECURSIVE check_struct_fields(_, _, _, _)
check_struct_fields(stype, afields, values, done) ==
    IF Len(done) = Len(afields) THEN [fields |-> done, err |-> OK]
    ELSE LET i == Len(done) + 1
             field == type_get_field(stype, afields[i].name)
         IN IF field = NULL
            THEN [fields |-> done,
                  err |-> "No field by this name exists for this type"]
            ELSE IF values[i].result = NULL
            THEN [fields |-> done, err |-> SIGSEGV]
            ELSE IF ~type_is_assignable(field.type, values[i].result)
            THEN [fields |-> done,
                  err |-> "Cannot initialize struct field from value of this type"]
            ELSE check_struct_fields(stype, afields, values,
                    Append(done,
                        [field |-> field,
                         value |-> lower_implicit_cast(field.type, values[i])]))

check_expr_struct(c, aexpr, hint) ==
    IF aexpr.autofill \/ aexpr.named THEN Fail(c, SIGABRT) ELSE
    LET v == check_struct_values(c, aexpr.fields, <<>>) IN
    IF v.err # OK THEN Fail(v.ctx, v.err) ELSE
    LET stype == type_store_lookup_atype(v.ctx,
                    [storage |-> "STRUCT", flags |-> {TYPE_CONST},
                     fields |-> [i \in 1..Len(aexpr.fields) |->
                                    [name |-> aexpr.fields[i].name,
                                     type |-> aexpr.fields[i].type]]])
        f == check_struct_fields(stype, aexpr.fields, v.values, <<>>)
    IN IF f.err # OK THEN Fail(v.ctx, f.err)
       ELSE Ret(v.ctx, [type |-> "EXPR_STRUCT", result |-> stype,
                        terminates |-> FALSE, fields |-> f.fields])

-----------------------------------------------------------------------------
(* switch *)

\* the options of one case: [ctx, options, err]
RECURSIVE check_case_options(_, _, _, _)
check_case_options(c, aoptions, type, options) ==
    IF Len(options) = Len(aoptions)
    THEN [ctx |-> c, options |-> options, err |-> OK]
    ELSE LET value == check_expression(c, aoptions[Len(options) + 1], type)
         IN IF value.err # OK
            THEN [ctx |-> value.ctx, options |-> options, err |-> value.err]
            ELSE IF type # value.expr.result
            THEN [ctx |-> value.ctx, options |-> options,
                  err |-> "Invalid type for switch case"]
            ELSE IF eval_expr(value.expr).r # "EVAL_OK"
            THEN [ctx |-> value.ctx, options |-> options,
                  err |-> "Unable to evaluate case at compile time"]
            ELSE check_case_options(value.ctx, aoptions, type,
                    Append(options, eval_expr(value.expr).value))

\* a switch that takes the result of each case body as it comes
switch_result_last(result, body) ==
    [result |-> IF body.terminates THEN result ELSE body.result,
     failed |-> FALSE]

\* expr->result after a case body: unchanged by a terminating case, set by
\* the first case that does not terminate; failed marks the assert(0)
switch_result(result, body) ==
    IF body.terminates THEN [result |-> result, failed |-> FALSE]
    ELSE IF result = NULL THEN [result |-> body.result, failed |-> FALSE]
    ELSE [result |-> result, failed |-> result # body.result]

\* result and terminates once every case is checked
switch_finish(result) ==
    IF result = NULL
    THEN [result |-> builtin_type_void, terminates |-> TRUE]
    ELSE [result |-> result, terminates |-> FALSE]

\* the loop over the cases: [ctx, cases, result, err]
RECURSIVE check_switch_cases(_, _, _, _, _)
check_switch_cases(c, acases, type, cases, result) ==
    IF Len(cases) = Len(acases)
    THEN [ctx |-> c, cases |-> cases, result |-> result, err |-> OK]
    ELSE LET acase == acases[Len(cases) + 1]
             o == check_case_options(c, acase.options, type, <<>>)
         IN
         IF o.err # OK
         THEN [ctx |-> o.ctx, cases |-> cases, result |-> result, err |-> o.err]
         ELSE
         LET body == check_expression(o.ctx, acase.value, type) IN
         IF body.err # OK
         THEN [ctx |-> body.ctx, cases |-> cases, result |-> result,
               err |-> body.err]
         ELSE IF switch_result(result, body.expr).failed
         THEN [ctx |-> body.ctx, cases |-> cases, result |-> result,
               err |-> SIGABRT]
         ELSE check_switch_cases(body.ctx, acases, type,
                Append(cases, [options |-> o.options, value |-> body.expr]),
                switch_result(result, body.expr).result)

check_expr_switch(c, aexpr, hint) ==
    LET value == check_expression(c, aexpr.value, NULL) IN
    IF value.err # OK THEN value ELSE
    LET r == check_switch_cases(value.ctx, aexpr.cases, value.expr.result,
                                <<>>, NULL)
    IN IF r.err # OK THEN Fail(r.ctx, r.err)
       ELSE Ret(r.ctx,
                [type |-> "EXPR_SWITCH",
                 result |-> switch_finish(r.result).result,
                 terminates |-> switch_finish(r.result).terminates,
                 value |-> value.expr, cases |-> r.cases])

-----------------------------------------------------------------------------
(* unarithm *)

check_expr_unarithm(c, aexpr, hint) ==
    LET operand == check_expression(c, aexpr.operand, NULL) IN
    IF operand.err # OK THEN operand ELSE
    LET otype == operand.expr.result
        node(result) ==
            Ret(operand.ctx,
                [type |-> "EXPR_UNARITHM", result |-> result,
                 terminates |-> FALSE, op |-> aexpr.op,
                 operand |-> operand.expr])
    IN
    IF otype = NULL /\ aexpr.op # "UN_ADDRESS" THEN Fail(operand.ctx, SIGSEGV) ELSE
    CASE aexpr.op = "UN_LNOT" ->
            IF otype.storage # "BOOL"
            THEN Fail(operand.ctx,
                      "Cannot perform logical NOT (!) on non-boolean type")
            ELSE node(builtin_type_bool)
      [] aexpr.op = "UN_BNOT" ->
            IF ~type_is_integer(otype)
            THEN Fail(operand.ctx,
                      "Cannot perform binary NOT (~) on non-integer type")
            ELSE IF type_is_signed(otype)
            THEN Fail(operand.ctx, "Cannot perform binary NOT (~) on signed type")
            ELSE node(otype)
      [] aexpr.op \in {"UN_MINUS", "UN_PLUS"} ->
            IF ~type_is_numeric(otype)
            THEN Fail(operand.ctx, "Cannot perform operation on non-numeric type")
            ELSE IF ~type_is_signed(otype)
            THEN Fail(operand.ctx, "Cannot perform operation on unsigned type")
            ELSE node(otype)
      [] aexpr.op = "UN_ADDRESS" ->
            node(type_store_lookup_pointer(otype, {}))
      [] aexpr.op = "UN_DEREF" ->
            IF otype.storage # "POINTER"
            THEN Fail(operand.ctx, "Cannot de-reference non-pointer type")
            ELSE IF "PTR_NULLABLE" \in otype.pointer.flags
            THEN Fail(operand.ctx, "Cannot dereference nullable pointer type")
            ELSE node(otype.pointer.referent)

-----------------------------------------------------------------------------
(* check_expression: the dispatch on the kind of the AST expression *)

check_expression(c, aexpr, hint) ==
    CASE aexpr.type = "EXPR_ACCESS" -> check_expr_access(c, aexpr, hint)
      [] aexpr.type = "EXPR_ASSERT" -> check_expr_assert(c, aexpr, hint)
      [] aexpr.type = "EXPR_ASSIGN" -> check_expr_assign(c, aexpr, hint)
      [] aexpr.type = "EXPR_BINARITHM" -> check_expr_binarithm(c, aexpr, hint)
      [] aexpr.type = "EXPR_BINDING" -> check_expr_binding(c, aexpr, hint)
      [] aexpr.type \in {"EXPR_BREAK", "EXPR_CONTINUE"} ->
            check_expr_control(c, aexpr, hint)
      [] aexpr.type = "EXPR_CALL" -> check_expr_call(c, aexpr, hint)
      [] aexpr.type = "EXPR_CAST" -> check_expr_cast(c, aexpr, hint)
      [] aexpr.type = "EXPR_CONSTANT" -> check_expr_constant(c, aexpr, hint)
      [] aexpr.type = "EXPR_DEFER" -> check_expr_defer(c, aexpr, hint)
      [] aexpr.type = "EXPR_FOR" -> check_expr_for(c, aexpr, hint)
      [] aexpr.type = "EXPR_IF" -> check_expr_if(c, aexpr, hint)
      [] aexpr.type = "EXPR_LIST" -> check_expr_list(c, aexpr, hint)
      [] aexpr.type = "EXPR_MATCH" -> Fail(c, SIGABRT)
      [] aexpr.type = "EXPR_MEASURE" -> check_expr_measure(c, aexpr, hint)
      [] aexpr.type = "EXPR_RETURN" -> check_expr_return(c, aexpr, hint)
      [] aexpr.type = "EXPR_SLICE" -> check_expr_slice(c, aexpr, hint)
      [] aexpr.type = "EXPR_STRUCT" -> check_expr_struct(c, aexpr, hint)
      [] aexpr.type = "EXPR_SWITCH" -> check_expr_switch(c, aexpr, hint)
      [] aexpr.type = "EXPR_UNARITHM" -> check_expr_unarithm(c, aexpr, hint)

-----------------------------------------------------------------------------
(* The second pass: declarations *)

FnAttributes == {"FN_INIT", "FN_FINI", "FN_TEST"}

\* the function type of a declaration's prototype
prototype_type(c, prototype) ==
    type_store_lookup_atype(c,
        [storage |-> "FUNCTION", flags |-> {TYPE_CONST}, func |-> prototype])

\* the parameters of check_function, inserted into the function's scope
RECURSIVE function_params(_, _, _, _)
function_params(c, fntype, params, i) ==
    IF i > Len(params) THEN [ctx |-> c, err |-> OK]
    ELSE IF params[i].name = NoLabel
    THEN [ctx |-> c, err |-> "Function parameters must be named"]
    ELSE LET t == type_store_lookup_atype(c, params[i].type)
             type == IF fntype.func.variadism = "VARIADISM_HARE"
                        /\ i = Len(params)
                     THEN type_store_lookup_slice(t) ELSE t
             ident == <<params[i].name>>
         IN function_params(
                scope_insert(c, c.scope, "O_BIND", ident, ident, type, NULL),
                fntype, params, i + 1)

\* the attribute checks at the end of check_function, on the declaration as
\* it is then; the message of the expect that fails, or OK
function_attributes(decl, fntype) ==
    IF decl.flags \cap FnAttributes # {}
    THEN IF fntype.func.result # builtin_type_void
         THEN "@flags function must return void"
         ELSE IF decl.exported THEN "@flags function cannot be exported"
         ELSE OK
    ELSE OK

\* check_function once the body b is checked: [ctx, decl, err]
function_body(c, adecl, fntype, scope, b) ==
    IF b.err # OK THEN [ctx |-> b.ctx, decl |-> NULL, err |-> b.err] ELSE
    IF ~b.expr.terminates /\ b.expr.result = NULL
    THEN [ctx |-> b.ctx, decl |-> NULL, err |-> SIGSEGV] ELSE
    IF ~(b.expr.terminates
         \/ type_is_assignable(fntype.func.result, b.expr.result))
    THEN [ctx |-> b.ctx, decl |-> NULL,
          err |-> "Result value is not assignable to function result type"]
    ELSE
    LET body == IF ~b.expr.terminates /\ fntype.func.result # b.expr.result
                THEN lower_implicit_cast(fntype.func.result, b.expr)
                ELSE b.expr
        decl == [type |-> "DECL_FUNC",
                 ident |-> IF adecl.symbol # NoLabel THEN <<adecl.symbol>>
                           ELSE mkident(c, adecl.ident),
                 symbol |-> adecl.symbol,
                 exported |-> FALSE,
                 fntype |-> fntype, flags |-> adecl.flags,
                 scope |-> scope, body |-> body]
    IN
    IF function_attributes(decl, fntype) # OK
    THEN [ctx |-> b.ctx, decl |-> NULL, err |-> function_attributes(decl, fntype)]
    ELSE [ctx |-> [scope_pop(b.ctx) EXCEPT !.current_fntype = NULL],
          decl |-> decl, err |-> OK]

\* check_function once the parameters p are in the function's scope
function_scope(c, adecl, fntype, scope, p) ==
    IF p.err # OK THEN [ctx |-> p.ctx, decl |-> NULL, err |-> p.err]
    ELSE function_body(c, adecl, fntype, scope,
            check_expression(p.ctx, adecl.body, fntype.func.result))

\* [ctx, decl, err]; decl is NULL for a prototype
check_function(c, adecl) ==
    IF adecl.body = NULL THEN [ctx |-> c, decl |-> NULL, err |-> OK] ELSE
    LET fntype == prototype_type(c, adecl.prototype)
        c1 == [c EXCEPT !.current_fntype = fntype]
    IN
    IF fntype.func.variadism = "VARIADISM_C"
    THEN [ctx |-> c1, decl |-> NULL,
          err |-> "C-style variadism is not allowed for function declarations"]
    ELSE
    LET c2 == scope_push(c1)
    IN function_scope(c, adecl, fntype, c2.scope,
            function_params(c2, fntype, adecl.prototype.params, 1))

\* check_global once the initializer i is checked: [ctx, decl, err]
global_initializer(c, adecl, type, i) ==
    IF i.err # OK THEN [ctx |-> i.ctx, decl |-> NULL, err |-> i.err] ELSE
    IF i.expr.result = NULL THEN [ctx |-> i.ctx, decl |-> NULL, err |-> SIGSEGV]
    ELSE IF ~type_is_assignable(type, i.expr.result)
    THEN [ctx |-> i.ctx, decl |-> NULL,
          err |-> "Constant type is not assignable from initializer type"]
    ELSE LET e == eval_expr(lower_implicit_cast(type, i.expr)) IN
    IF e.r # "EVAL_OK"
    THEN [ctx |-> i.ctx, decl |-> NULL,
          err |-> "Unable to evaluate global initializer at compile time"]
    ELSE [ctx |-> i.ctx,
          decl |-> [type |-> "DECL_GLOBAL",
                    ident |-> IF adecl.symbol # NoLabel THEN <<adecl.symbol>>
                              ELSE mkident(c, adecl.ident),
                    symbol |-> adecl.symbol, exported |-> FALSE,
                    global_type |-> type, value |-> e.value],
          err |-> OK]

\* the initializer of check_global, checked with the declared type as hint
global_checked(c, adecl, type) ==
    global_initializer(c, adecl, type, check_expression(c, adecl.init, type))

\* [ctx, decl, err]; decl is NULL for a forward declaration
check_global(c, adecl) ==
    IF adecl.init = NULL THEN [ctx |-> c, decl |-> NULL, err |-> OK]
    ELSE global_checked(c, adecl, type_store_lookup_atype(c, adecl.type))

check_type(c, adecl) ==
    [ctx |-> c,
     decl |-> [type |-> "DECL_TYPE", ident |-> mkident(c, adecl.ident),
               symbol |-> NoLabel, exported |-> FALSE,
               decl_type |-> type_store_lookup_atype(c, adecl.type)],
     err |-> OK]

\* the declaration r.decl, if there is one, appended to the unit's
declaration_append(adecl, declarations, r) ==
    [ctx |-> r.ctx,
     declarations |->
        IF r.err = OK /\ r.decl # NULL
        THEN Append(declarations, [r.decl EXCEPT !.exported = adecl.exported])
        ELSE declarations,
     err |-> r.err]

\* one turn of the loop of check_declarations: [ctx, declarations, err]
check_declaration(c, adecl, declarations) ==
    declaration_append(adecl, declarations,
        CASE adecl.decl_type = "AST_DECL_CONST" ->
                [ctx |-> c, decl |-> NULL, err |-> OK]
          [] adecl.decl_type = "AST_DECL_FUNC" -> check_function(c, adecl)
          [] adecl.decl_type = "AST_DECL_GLOBAL" -> check_global(c, adecl)
          [] adecl.decl_type = "AST_DECL_TYPE" -> check_type(c, adecl))

-----------------------------------------------------------------------------
(* The first pass: the scan of the declarations *)

\* scan_const once the initializer i is checked: [ctx, err]
const_initializer(c, decl, type, i) ==
    IF decl.symbol # NoLabel THEN [ctx |-> c, err |-> SIGABRT] ELSE
    IF i.err # OK THEN [ctx |-> i.ctx, err |-> i.err] ELSE
    IF i.expr.result = NULL THEN [ctx |-> i.ctx, err |-> SIGSEGV] ELSE
    IF ~type_is_assignable(type, i.expr.result)
    THEN [ctx |-> i.ctx,
          err |-> "Constant type is not assignable from initializer type"]
    ELSE LET e == eval_expr(lower_implicit_cast(type, i.expr)) IN
    IF e.r # "EVAL_OK"
    THEN [ctx |-> i.ctx,
          err |-> "Unable to evaluate constant initializer at compile time"]
    ELSE [ctx |-> scope_insert(i.ctx, i.ctx.unit, "O_CONST",
                    mkident(i.ctx, decl.ident), decl.ident, type, e.value),
          err |-> OK]

\* the initializer of scan_const, checked with the declared type as hint
const_checked(c, decl, type) ==
    const_initializer(c, decl, type, check_expression(c, decl.init, type))

\* [ctx, err]
scan_const(c, decl) ==
    const_checked(c, decl, type_store_lookup_atype(c, decl.type))

\* a scan that inserts a function into the current scope, the subunit's
scan_function_subunit(c, decl) ==
    [ctx |-> scope_insert(c, c.scope, "O_DECL",
                IF decl.symbol # NoLabel THEN <<decl.symbol>>
                ELSE mkident(c, decl.ident),
                decl.ident, prototype_type(c, decl.prototype), NULL),
     err |-> OK]

scan_function(c, decl) ==
    [ctx |-> scope_insert(c, c.unit, "O_DECL",
                IF decl.symbol # NoLabel THEN <<decl.symbol>>
                ELSE mkident(c, decl.ident),
                decl.ident, prototype_type(c, decl.prototype), NULL),
     err |-> OK]

scan_global(c, decl) ==
    [ctx |-> scope_insert(c, c.unit, "O_DECL",
                IF decl.symbol # NoLabel THEN <<decl.symbol>>
                ELSE mkident(c, decl.ident),
                decl.ident, type_store_lookup_atype(c, decl.type), NULL),
     err |-> OK]

\* the constant inserted for one value of an enum type
enum_value_expr(alias, value) ==
    [type |-> "EXPR_CONSTANT", result |-> alias, terminates |-> FALSE,
     constant |-> IF type_is_signed(alias) THEN [ival |-> value.ival]
                  ELSE [uval |-> value.ival]]

\* an insert of an enum value under its short spelling alone
scan_enum_value_short(c, decl, ident, alias, value) ==
    scope_insert(c, c.unit, "O_CONST",
        decl.ident \o <<value.name>>, decl.ident \o <<value.name>>,
        alias, enum_value_expr(alias, value))

\* scope_insert of one enum value: ident is the enum's own name then the
\* value's, name is the mangled name of the enum then the value's
scan_enum_value(c, decl, ident, alias, value) ==
    scope_insert(c, c.unit, "O_CONST",
        decl.ident \o <<value.name>>, ident \o <<value.name>>,
        alias, enum_value_expr(alias, value))

RECURSIVE scan_enum_values(_, _, _, _)
scan_enum_values(c, decl, ident, i) ==
    LET type == type_store_lookup_atype(c, decl.type) IN
    IF i > Len(type.values) THEN c
    ELSE LET alias == type_store_lookup_atype(c,
                        [storage |-> "ALIAS", flags |-> {}, alias |-> decl.ident])
         IN scan_enum_values(
                scan_enum_value(c, decl, ident, alias, type.values[i]),
                decl, ident, i + 1)

scan_type(c, decl) ==
    LET type == type_store_lookup_atype(c, decl.type)
        ident == mkident(c, decl.ident)
        c1 == scope_insert(c, c.unit, "O_TYPE", ident, decl.ident, type, NULL)
    IN [ctx |-> IF type.storage = "ENUM"
                THEN scan_enum_values(c1, decl, ident, 1) ELSE c1,
        err |-> OK]

\* one turn of the loop of scan_declarations
scan_declaration(c, decl) ==
    CASE decl.decl_type = "AST_DECL_CONST" -> scan_const(c, decl)
      [] decl.decl_type = "AST_DECL_FUNC" -> scan_function(c, decl)
      [] decl.decl_type = "AST_DECL_GLOBAL" -> scan_global(c, decl)
      [] decl.decl_type = "AST_DECL_TYPE" -> scan_type(c, decl)

-----------------------------------------------------------------------------
(* The AST, as the parser builds it *)

Loc0 == [path |-> <<"m">>, lineno |-> 1, colno |-> 1]

AIdent(ident) ==
    [type |-> "EXPR_ACCESS", access_type |-> "ACCESS_IDENTIFIER", ident |-> ident]
AIndex(array, index) ==
    [type |-> "EXPR_ACCESS", access_type |-> "ACCESS_INDEX",
     array |-> array, index |-> index]
AField(struct, field) ==
    [type |-> "EXPR_ACCESS", access_type |-> "ACCESS_FIELD",
     struct |-> struct, field |-> field]
AAssert(cond, message, loc) ==
    [type |-> "EXPR_ASSERT", cond |-> cond, message |-> message, loc |-> loc]
AAssign(object, value, indirect) ==
    [type |-> "EXPR_ASSIGN", object |-> object, value |-> value,
     indirect |-> indirect, op |-> "BIN_LEQUAL"]
ABinarithm(op, lvalue, rvalue) ==
    [type |-> "EXPR_BINARITHM", op |-> op, lvalue |-> lvalue, rvalue |-> rvalue]
ABind(name, type, flags, initializer, is_static) ==
    [name |-> name, type |-> type, flags |-> flags,
     initializer |-> initializer, is_static |-> is_static]
ABinding(bindings) == [type |-> "EXPR_BINDING", bindings |-> bindings]
ALet(name, initializer) ==
    ABinding(<<ABind(name, NULL, {}, initializer, FALSE)>>)
AControl(type, label) == [type |-> type, label |-> label]
AArg(value, variadic) == [value |-> value, variadic |-> variadic]
ACall(lvalue, args) == [type |-> "EXPR_CALL", lvalue |-> lvalue, args |-> args]
ACast(kind, value, cast_type) ==
    [type |-> "EXPR_CAST", kind |-> kind, value |-> value, cast_type |-> cast_type]
AConst(storage, value) ==
    [type |-> "EXPR_CONSTANT", constant |-> [storage |-> storage, value |-> value]]
AItem(value, expand) == [value |-> value, expand |-> expand]
AArray(items) ==
    [type |-> "EXPR_CONSTANT", constant |-> [storage |-> "ARRAY", array |-> items]]
ADefer(deferred) == [type |-> "EXPR_DEFER", deferred |-> deferred]
AFor(label, bindings, cond, afterthought, body) ==
    [type |-> "EXPR_FOR", label |-> label, bindings |-> bindings, cond |-> cond,
     afterthought |-> afterthought, body |-> body]
AIf(cond, true_branch, false_branch) ==
    [type |-> "EXPR_IF", cond |-> cond, true_branch |-> true_branch,
     false_branch |-> false_branch]
AList(exprs) == [type |-> "EXPR_LIST", exprs |-> exprs]
AMeasureLen(value) ==
    [type |-> "EXPR_MEASURE", op |-> "M_LEN", value |-> value,
     measure_type |-> NULL]
AMeasureSize(measure_type) ==
    [type |-> "EXPR_MEASURE", op |-> "M_SIZE", value |-> NULL,
     measure_type |-> measure_type]
AReturn(value) == [type |-> "EXPR_RETURN", value |-> value]
ASlice(object, start, end) ==
    [type |-> "EXPR_SLICE", object |-> object, start |-> start, end |-> end]
AStructField(name, type, initializer) ==
    [name |-> name, type |-> type, initializer |-> initializer,
     is_embedded |-> FALSE]
AStruct(fields) ==
    [type |-> "EXPR_STRUCT", autofill |-> FALSE, named |-> FALSE,
     fields |-> fields]
ACase(options, value) == [options |-> options, value |-> value]
ASwitch(value, cases) == [type |-> "EXPR_SWITCH", value |-> value, cases |-> cases]
AUnarithm(op, operand) == [type |-> "EXPR_UNARITHM", op |-> op, operand |-> operand]

AParam(name, type) == [name |-> name, type |-> type]
APrototype(params, result, variadism) ==
    [params |-> params, result |-> result, variadism |-> variadism]
ADeclFunc(exported, name, flags, prototype, body) ==
    [decl_type |-> "AST_DECL_FUNC", exported |-> exported, ident |-> <<name>>,
     symbol |-> NoLabel, flags |-> flags, prototype |-> prototype, body |-> body]
ADeclConst(exported, name, type, init) ==
    [decl_type |-> "AST_DECL_CONST", exported |-> exported, ident |-> <<name>>,
     symbol |-> NoLabel, type |-> type, init |-> init]
ADeclGlobal(exported, name, type, init) ==
    [decl_type |-> "AST_DECL_GLOBAL", exported |-> exported, ident |-> <<name>>,
     symbol |-> NoLabel, type |-> type, init |-> init]
ADeclType(exported, name, type) ==
    [decl_type |-> "AST_DECL_TYPE", exported |-> exported, ident |-> <<name>>,
     type |-> type]

-----------------------------------------------------------------------------
(* The inputs: the units the checker is run on *)

TInt == builtin_type_int
TBool == builtin_type_bool
TVoid == builtin_type_void
TPtr == type_store_lookup_pointer(TInt, {})
TNullablePtr == type_store_lookup_pointer(TInt, {"PTR_NULLABLE"})
TEnum ==
    [storage |-> "ENUM", flags |-> {},
     values |-> <<[name |-> "A", ival |-> 0], [name |-> "B", ival |-> 1]>>]

One == AConst("INT", [ival |-> 1])
True == AConst("BOOL", [bval |-> TRUE])
Null == AConst("NULL", [none |-> TRUE])
X == AIdent(<<"x">>)
B == AIdent(<<"b">>)
P == AIdent(<<"p">>)
Q == AIdent(<<"q">>)
Y == AIdent(<<"y">>)
Break == AControl("EXPR_BREAK", NoLabel)
Continue == AControl("EXPR_CONTINUE", NoLabel)

\* the bounds of the inputs
MaxNest == 2    \* wrappers around a control-flow leaf
MaxList == 2    \* statements of a block before its closing return
MaxStatic == 2  \* bindings of one binding expression
MaxBind == 2    \* bindings of a list whose initializers name one another

\* sequences over S of length 1..n
RECURSIVE SeqsUpTo(_, _)
SeqsUpTo(S, n) ==
    IF n = 0 THEN {}
    ELSE {<<x>> : x \in S}
         \cup SeqsUpTo(S, n - 1)
         \cup {Append(q, x) : q \in SeqsUpTo(S, n - 1), x \in S}

\* type E = enum { A, B }; const c: int = 1; let g: int = 1;
\* fn f(a: int, n: nullable *int) int; fn v(a: int, values: int...) void;
Prelude ==
    <<ADeclType(FALSE, "E", TEnum),
      ADeclConst(FALSE, "c", TInt, One),
      ADeclGlobal(FALSE, "g", TInt, One),
      ADeclFunc(FALSE, "f", {},
                APrototype(<<AParam("a", TInt), AParam("n", TNullablePtr)>>,
                           TInt, "VARIADISM_NONE"), NULL),
      ADeclFunc(FALSE, "v", {},
                APrototype(<<AParam("a", TInt), AParam("values", TInt)>>,
                           TVoid, "VARIADISM_HARE"), NULL)>>

\* fn main(x: int, b: bool, p: *int, q: nullable *int) result = body;
Main(result, body) ==
    ADeclFunc(FALSE, "main", {},
              APrototype(<<AParam("x", TInt), AParam("b", TBool),
                           AParam("p", TPtr), AParam("q", TNullablePtr)>>,
                         result, "VARIADISM_NONE"),
              body)

\* a block of statements closed by a return
Block(stmts) == AList(stmts \o <<AReturn(NULL)>>)

Program(ns, subunits) == [ns |-> ns, subunits |-> subunits]

\* the prelude and main in one subunit of namespace ns
MainProgram(result, body) ==
    Program(<<"ns">>, <<Prelude \o <<Main(result, body)>>>>)

(* Control flow: leaves under nested for, block, if and defer *)
Labels == {"a", "b"}
ControlLeaves ==
    {One, AReturn(NULL), Break, Continue,
     AControl("EXPR_BREAK", "a"), AControl("EXPR_CONTINUE", "b")}
Wrap(e) ==
    {AFor(l, NULL, True, NULL, e) : l \in {NoLabel} \cup Labels}
    \cup {AList(<<e>>), AIf(B, e, NULL), ADefer(e)}
RECURSIVE Nested(_)
Nested(d) ==
    IF d = 0 THEN ControlLeaves
    ELSE Nested(d - 1) \cup UNION {Wrap(e) : e \in Nested(d - 1)}
Paired ==
    LET inner == Nested(MaxNest - 1)
        pairs == (inner \X ControlLeaves) \cup (ControlLeaves \X inner)
    IN {AIf(B, pr[1], pr[2]) : pr \in pairs}
       \cup {AList(<<pr[1], pr[2]>>) : pr \in pairs}
ControlPrograms ==
    {MainProgram(TVoid, Block(<<e>>)) : e \in Nested(MaxNest) \cup Paired}

(* Names: bindings and identifiers in nested blocks and loops *)
NameLeaves ==
    {ALet("y", One), Y, X, AIdent(<<"c">>), AIdent(<<"E", "A">>),
     AIdent(<<"E">>)}
NameStmts ==
    NameLeaves
    \cup {AList(<<s>>) : s \in NameLeaves}
    \cup {AFor(NoLabel, ALet("y", One), True, NULL, s) : s \in NameLeaves}
NamePrograms ==
    {MainProgram(TVoid, Block(stmts)) : stmts \in SeqsUpTo(NameStmts, MaxList)}

(* Values stored where a type is expected *)
Values == {One, Null, X, Q, AIdent(<<"c">>), True}
TArrayOf(members, n) == type_store_lookup_array(members, n)
CastStmts ==
    {AAssign(lhs, v, FALSE) : lhs \in {X, Q, B}, v \in Values}
    \cup {AAssign(P, v, TRUE) : v \in Values}
    \cup {ABinding(<<ABind("y", t, fl, v, st)>>) :
            t \in {NULL, TInt, TNullablePtr}, fl \in {{}, {TYPE_CONST}},
            v \in Values, st \in BOOLEAN}
    \cup {ACall(AIdent(<<"f">>), <<AArg(v, FALSE), AArg(w, FALSE)>>) :
            v \in Values, w \in Values}
    \cup {ACall(AIdent(<<"v">>),
                <<AArg(One, FALSE)>> \o [i \in 1..Len(r) |-> AArg(r[i], FALSE)]) :
            r \in SeqsUpTo({One, X, Null}, MaxList)}
    \cup {ABinding(<<ABind("y", t, {},
                           AArray(<<AItem(v, FALSE), AItem(w, FALSE)>>), FALSE)>>) :
            t \in {NULL, TArrayOf(TNullablePtr, 2)}, v \in Values, w \in Values}
\* one value v stored in each of the five places
EveryStore(v) ==
    AList(<<AAssign(Q, v, FALSE),
            ABinding(<<ABind("y", TNullablePtr, {}, v, FALSE)>>),
            ACall(AIdent(<<"f">>), <<AArg(One, FALSE), AArg(v, FALSE)>>),
            ABinding(<<ABind("z", NULL, {},
                             AArray(<<AItem(Q, FALSE), AItem(v, FALSE)>>),
                             FALSE)>>),
            AReturn(v)>>)
CastPrograms ==
    {MainProgram(TVoid, Block(<<s>>)) : s \in CastStmts}
    \cup {MainProgram(TNullablePtr, EveryStore(v)) : v \in {Null, Q}}
    \cup {MainProgram(t, AList(<<AReturn(v)>>)) :
            t \in {TInt, TNullablePtr}, v \in Values}

(* Attributes: one function, flagged or not, exported or not *)
AttributePrograms ==
    {Program(<<"ns">>,
        <<<<ADeclFunc(ex, "main", fl, APrototype(<<>>, t, "VARIADISM_NONE"),
                      AList(<<AReturn(NULL)>>))>>>>) :
        ex \in BOOLEAN, fl \in {{}, {"FN_INIT"}, {"FN_FINI"}, {"FN_TEST"}},
        t \in {TVoid, TInt}}

(* Static bindings in the functions of one or two subunits *)
StaticBodies ==
    {Block(<<ABinding(bs)>>) : bs \in SeqsUpTo({ABind("y", NULL, {}, One, TRUE),
                                                ABind("z", NULL, {}, One, FALSE)},
                                               MaxStatic)}
Fn(name, body) ==
    ADeclFunc(FALSE, name, {}, APrototype(<<>>, TVoid, "VARIADISM_NONE"), body)
StaticPrograms ==
    {Program(ns, <<<<Fn("m", b1), Fn("n", b2)>>>>) :
        ns \in {<<>>, <<"ns">>}, b1 \in StaticBodies, b2 \in StaticBodies}
    \cup {Program(<<"ns">>, <<<<Fn("m", b1)>>, <<Fn("n", b2)>>>>) :
            b1 \in StaticBodies, b2 \in StaticBodies}

(* Enum types, with and without a namespace *)
EnumPrograms ==
    {Program(ns, <<<<ADeclType(FALSE, "E", TEnum),
                     Fn("m", Block(<<AIdent(id)>>))>>>>) :
        ns \in {<<>>, <<"ns">>},
        id \in {<<"E", "A">>, <<"ns", "E", "B">>, <<"A">>, <<"E">>}}

(* Defers: side by side, and one inside another at some depth *)
DeferStmts ==
    {One, ADefer(One), ADefer(ADefer(One)), AList(<<ADefer(One)>>),
     ADefer(AList(<<ADefer(One)>>)),
     ADefer(AIf(B, AList(<<One, ADefer(One)>>), NULL))}
DeferPrograms ==
    {MainProgram(TVoid, Block(stmts)) : stmts \in SeqsUpTo(DeferStmts, MaxList)}

(* Calls of f and v with fewer, as many and more arguments than parameters *)
ArityArgs ==
    {<<>>} \cup SeqsUpTo({AArg(One, FALSE), AArg(Q, FALSE)}, MaxList + 1)
ArityPrograms ==
    {MainProgram(TVoid, Block(<<ACall(AIdent(<<callee>>), args)>>)) :
        callee \in {"f", "v"}, args \in ArityArgs}

(* Loops, labeled or not, side by side and one inside another *)
LoopLabels == {NoLabel, "a"}
LoopStmts ==
    {AFor(l, NULL, True, NULL, e) :
        l \in LoopLabels,
        e \in {One} \cup {AFor(m, NULL, True, NULL, One) : m \in LoopLabels}}
LoopPrograms ==
    {MainProgram(TVoid, Block(stmts)) : stmts \in SeqsUpTo(LoopStmts, MaxList)}

(* Switches on x whose case bodies terminate or not, of one type or two *)
CaseBodies == {One, True, X, AReturn(NULL)}
SwitchPrograms ==
    {MainProgram(TVoid,
        Block(<<ASwitch(X, [i \in 1..Len(bodies) |->
                                ACase(<<One>>, bodies[i])])>>)) :
        bodies \in {<<>>} \cup SeqsUpTo(CaseBodies, MaxList)}

(* Slices of an array, a slice, pointers to an array and an int *)
SliceParams ==
    <<AParam("a", TArrayOf(TInt, 2)),
      AParam("pa", type_store_lookup_pointer(TArrayOf(TInt, 2), {})),
      AParam("qa", type_store_lookup_pointer(TArrayOf(TInt, 2),
                                             {"PTR_NULLABLE"})),
      AParam("s", type_store_lookup_slice(TInt)),
      AParam("x", TInt)>>
SlicePrograms ==
    {Program(<<"ns">>,
        <<<<ADeclFunc(FALSE, "main", {},
                      APrototype(SliceParams, TVoid, "VARIADISM_NONE"),
                      Block(<<ASlice(AIdent(<<SliceParams[i].name>>),
                                     start, end)>>))>>>>) :
        i \in DOMAIN SliceParams, start \in {NULL, One},
        end \in {NULL, One, True}}

(* A return as the initializer of a constant or a global *)
ReturnPrograms ==
    {Program(<<"ns">>, <<<<ADeclConst(FALSE, "r", t, AReturn(v))>>>>) :
        t \in {TVoid, TInt}, v \in {NULL, One}}
    \cup {Program(<<"ns">>, <<<<ADeclGlobal(FALSE, "r", t, AReturn(v))>>>>) :
            t \in {TVoid, TInt}, v \in {NULL, One}}

(* Asserts with and without a condition and a message, at two places *)
AssertPrograms ==
    {MainProgram(TVoid, Block(<<AAssert(cond, message, loc)>>)) :
        cond \in {NULL, True, One}, message \in {NULL, One},
        loc \in {Loc0, [path |-> <<"m", "n">>, lineno |-> 12, colno |-> 3]}}

(* A declaration that refers to another, before it, after it, or in the
   other subunit: const k; let h; fn w() int; type T = enum { A, B } *)
AliasT == [storage |-> "ALIAS", flags |-> {}, alias |-> <<"T">>]
ForwardTargets ==
    {ADeclConst(FALSE, "k", TInt, One), ADeclGlobal(FALSE, "h", TInt, One),
     ADeclFunc(FALSE, "w", {}, APrototype(<<>>, TInt, "VARIADISM_NONE"), NULL),
     ADeclType(FALSE, "T", TEnum)}
ForwardRefs ==
    {AIdent(<<"k">>), AIdent(<<"h">>), ACall(AIdent(<<"w">>), <<>>),
     AIdent(<<"T", "A">>)}
ForwardReferrers ==
    {ADeclFunc(FALSE, "main", {}, APrototype(<<>>, TVoid, "VARIADISM_NONE"),
               Block(<<e>>)) :
        e \in ForwardRefs
               \cup {ABinding(<<ABind("y", AliasT, {},
                                       AIdent(<<"T", "A">>), FALSE)>>)}}
    \cup {ADeclConst(FALSE, "d", TInt, e) : e \in ForwardRefs}
    \cup {ADeclGlobal(FALSE, "u", TInt, e) : e \in ForwardRefs}
ForwardPrograms ==
    UNION {{Program(<<"ns">>, <<<<t, r>>>>), Program(<<"ns">>, <<<<r, t>>>>),
            Program(<<"ns">>, <<<<t>>, <<r>>>>),
            Program(<<"ns">>, <<<<r>>, <<t>>>>)} :
        t \in ForwardTargets, r \in ForwardReferrers}

(* Binding lists whose initializers name a parameter, a binding of the
   list or nothing: x is a parameter of main, y is not *)
BindingChoices ==
    {ABind(n, NULL, {}, v, FALSE) : n \in {"x", "y"}, v \in {X, Y, True}}
    \cup {ABind("y", NULL, {}, True, TRUE)}
BindingPrograms ==
    {MainProgram(TVoid, Block(<<ABinding(bs)>>)) :
        bs \in SeqsUpTo(BindingChoices, MaxBind)}

Programs ==
    ControlPrograms \cup NamePrograms \cup CastPrograms
    \cup AttributePrograms \cup StaticPrograms \cup EnumPrograms
    \cup DeferPrograms \cup ArityPrograms \cup LoopPrograms
    \cup SwitchPrograms \cup SlicePrograms \cup ReturnPrograms
    \cup AssertPrograms \cup ForwardPrograms \cup BindingPrograms

-----------------------------------------------------------------------------
(* check(): the driver *)

Init ==
    /\ \E program \in Programs :
        /\ aunit = program.subunits
        /\ unit = [ns |-> program.ns, declarations |-> <<>>]
    /\ ctx = [ns |-> <<>>, scope |-> 0, unit |-> 0, current_fntype |-> NULL,
              deferring |-> FALSE, id |-> 0, scopes |-> <<>>]
    /\ pc = "start"
    /\ su = 0
    /\ di = 0
    /\ subunit_scopes = <<>>
    /\ error = OK

\* what a failed expect leaves behind: its message, where vfprintf is
\* given a null pointer for %s either "(null)" in the label's place or a fault
expect(err) ==
    IF err = unknown_label(NoLabel)
    THEN {unknown_label("(null)"), SIGSEGV}
    ELSE {err}

\* a failed expect that lets the run go on
abort_never(err, at) == at

\* abort() in expect: where the run is after an expect, at the place at if
\* the constraint held
abort(err, at) == IF err = OK THEN at ELSE "aborted"

\* ctx->ns = unit->ns; ctx->unit = scope_push(&ctx->scope)
check_start ==
    /\ pc = "start"
    /\ ctx' = LET c == scope_push([ctx EXCEPT !.ns = unit.ns])
              IN [c EXCEPT !.unit = c.scope]
    /\ pc' = "scan"
    /\ su' = 1
    /\ di' = 0
    /\ UNCHANGED <<aunit, unit, subunit_scopes, error>>

\* first pass, entering a subunit: scope_push
scan_enter ==
    /\ pc = "scan"
    /\ di = 0
    /\ ctx' = scope_push(ctx)
    /\ di' = 1
    /\ UNCHANGED <<aunit, unit, pc, su, subunit_scopes, error>>

\* first pass, one declaration of scan_declarations
scan_step ==
    /\ pc = "scan"
    /\ di \in 1..Len(aunit[su])
    /\ \E r \in {scan_declaration(ctx, aunit[su][di])} :
          /\ ctx' = r.ctx
          /\ error' \in expect(r.err)
          /\ pc' = abort(r.err, pc)
          /\ di' = IF r.err = OK THEN di + 1 ELSE di
    /\ UNCHANGED <<aunit, unit, su, subunit_scopes>>

\* first pass, leaving a subunit: its scope is popped and kept
scan_leave ==
    /\ pc = "scan"
    /\ di = Len(aunit[su]) + 1
    /\ subunit_scopes' = Append(subunit_scopes, ctx.scope)
    /\ ctx' = scope_pop(ctx)
    /\ di' = 0
    /\ su' = IF su < Len(aunit) THEN su + 1 ELSE 1
    /\ pc' = IF su < Len(aunit) THEN "scan" ELSE "check"
    /\ UNCHANGED <<aunit, unit, error>>

\* second pass, entering a subunit: ctx->scope = scope->scope
check_enter ==
    /\ pc = "check"
    /\ di = 0
    /\ ctx' = [ctx EXCEPT !.scope = subunit_scopes[su]]
    /\ di' = 1
    /\ UNCHANGED <<aunit, unit, pc, su, subunit_scopes, error>>

\* second pass, one declaration of check_declarations
check_step ==
    /\ pc = "check"
    /\ di \in 1..Len(aunit[su])
    /\ \E r \in {check_declaration(ctx, aunit[su][di], unit.declarations)} :
          /\ ctx' = r.ctx
          /\ unit' = [unit EXCEPT !.declarations = r.declarations]
          /\ error' \in expect(r.err)
          /\ pc' = abort(r.err, pc)
          /\ di' = IF r.err = OK THEN di + 1 ELSE di
    /\ UNCHANGED <<aunit, su, subunit_scopes>>

\* second pass, leaving a subunit; check() returns after the last one
check_leave ==
    /\ pc = "check"
    /\ di = Len(aunit[su]) + 1
    /\ di' = 0
    /\ su' = IF su < Len(aunit) THEN su + 1 ELSE su
    /\ pc' = IF su < Len(aunit) THEN "check" ELSE "done"
    /\ UNCHANGED <<aunit, unit, ctx, subunit_scopes, error>>

Next ==
    \/ check_start
    \/ scan_enter
    \/ scan_step
    \/ scan_leave
    \/ check_enter
    \/ check_step
    \/ check_leave

Spec == Init /\ [][Next]_vars

-----------------------------------------------------------------------------
(* The typed tree of a checked unit *)

Range(q) == {q[i] : i \in DOMAIN q}

\* the direct sub-expressions of a typed node
children(e) ==
    (CASE e.type = "EXPR_ACCESS" ->
            IF e.access_type = "ACCESS_INDEX" THEN {e.array, e.index}
            ELSE IF e.access_type = "ACCESS_FIELD" THEN {e.struct}
            ELSE {}
       [] e.type = "EXPR_ASSERT" -> {e.cond, e.message}
       [] e.type = "EXPR_ASSIGN" -> {e.object, e.value}
       [] e.type = "EXPR_BINARITHM" -> {e.lvalue, e.rvalue}
       [] e.type = "EXPR_BINDING" -> {b.initializer : b \in Range(e.bindings)}
       [] e.type = "EXPR_CALL" -> {e.lvalue} \cup Range(e.args)
       [] e.type = "EXPR_CAST" -> {e.value}
       [] e.type = "EXPR_CONSTANT" ->
            IF "array" \in DOMAIN e.constant THEN Range(e.constant.array)
            ELSE {}
       [] e.type = "EXPR_DEFER" -> {e.deferred}
       [] e.type = "EXPR_FOR" -> {e.bindings, e.cond, e.afterthought, e.body}
       [] e.type = "EXPR_IF" -> {e.cond, e.true_branch, e.false_branch}
       [] e.type = "EXPR_LIST" -> Range(e.exprs)
       [] e.type = "EXPR_MEASURE" -> {e.value}
       [] e.type = "EXPR_RETURN" -> {e.value}
       [] e.type = "EXPR_SLICE" -> {e.object, e.start, e.end}
       [] e.type = "EXPR_STRUCT" -> {f.value : f \in Range(e.fields)}
       [] e.type = "EXPR_SWITCH" ->
            {e.value} \cup {k.value : k \in Range(e.cases)}
       [] e.type = "EXPR_UNARITHM" -> {e.operand}
       [] OTHER -> {}) \ {NULL}

\* the nodes of a typed tree, at every depth
RECURSIVE nodes(_)
nodes(e) == {e} \cup UNION {nodes(k) : k \in children(e)}

\* the function declarations of the typed unit
Functions ==
    {d \in Range(unit.declarations) : d.type = "DECL_FUNC"}

\* every node of every function body of the typed unit
Checked == UNION {nodes(d.body) : d \in Functions}

Control == {"EXPR_BREAK", "EXPR_CONTINUE"}

-----------------------------------------------------------------------------
(* C1 *)

\* C1: after a successful check every typed expression node, of every kind and
\* at every depth, has a non-null result type.
EveryNodeHasResult ==
    pc = "done" => \A n \in Checked : n.result # NULL

-----------------------------------------------------------------------------
(* C2 *)

\* C2: an if with a false branch whose checked branches both terminate
\* terminates itself, and its result is void.
IfOfTerminatingBranchesTerminates ==
    \A n \in Checked :
        (/\ n.type = "EXPR_IF"
         /\ n.false_branch # NULL
         /\ n.true_branch.terminates
         /\ n.false_branch.terminates)
        => n.terminates /\ n.result = builtin_type_void

-----------------------------------------------------------------------------
(* C3 *)

\* C3: the result and terminates of an expression list are those of its last
\* checked sub-expression, and every return, break and continue terminates.
ListTakesLast ==
    \A n \in Checked :
        /\ n.type = "EXPR_LIST" =>
            /\ n.result = Last(n.exprs).result
            /\ n.terminates = Last(n.exprs).terminates
        /\ n.type \in Control \cup {"EXPR_RETURN"} => n.terminates

\* a checked unit with a list closed by a return, a list whose last
\* sub-expression is an int that does not terminate, and a break under a loop
ListTakesLastWitness ==
    /\ pc = "done"
    /\ \E n \in Checked :
        /\ n.type = "EXPR_LIST" /\ Len(n.exprs) > 1
        /\ Last(n.exprs).type = "EXPR_RETURN" /\ n.terminates
    /\ \E n \in Checked :
        /\ n.type = "EXPR_LIST" /\ Len(n.exprs) > 1
        /\ ~Last(n.exprs).terminates /\ ~n.terminates
        /\ n.result = builtin_type_int
    /\ \E n \in Checked : n.type \in Control

-----------------------------------------------------------------------------
(* C4 *)

\* the declaration of the syntax tree a typed function was checked from
ADeclOf(d) ==
    CHOOSE a \in UNION {Range(aunit[i]) : i \in DOMAIN aunit} :
        /\ a.decl_type = "AST_DECL_FUNC"
        /\ a.body # NULL
        /\ Last(a.ident) = Last(d.ident)

\* the objects the statements before the k-th of a block have bound in it
RECURSIVE Bound(_, _)
Bound(exprs, k) ==
    IF k = 1 THEN 0
    ELSE Bound(exprs, k - 1)
         + (IF exprs[k - 1].type = "EXPR_BINDING"
            THEN Len(exprs[k - 1].bindings) ELSE 0)

\* the context the k-th statement of the outermost block of a checked
\* function is checked in
Inside(d, k) ==
    [ctx EXCEPT !.scope = d.body.scope, !.current_fntype = d.fntype,
                !.scopes[d.body.scope].objects =
                    SubSeq(@, 1, Bound(d.body.exprs, k))]

\* a cast node lower_implicit_cast made, as opposed to a cast of the source
IsImplicit(e) == e.type = "EXPR_CAST" /\ e.secondary = NULL

\* what C4 says is stored for a checked value where target is expected
Materialised(target, checked) ==
    IF checked.result = target THEN checked
    ELSE [type |-> "EXPR_CAST", kind |-> "C_CAST", result |-> target,
          terminates |-> checked.terminates, value |-> checked,
          secondary |-> NULL]

\* the places of a typed node n of function d where a value is stored against
\* a target type: [stored, target]
Stores(d, n) ==
    CASE n.type = "EXPR_ASSIGN" ->
            {[stored |-> n.value,
              target |-> IF n.indirect THEN n.object.result.pointer.referent
                         ELSE n.object.result]}
      [] n.type = "EXPR_BINDING" ->
            {[stored |-> b.initializer, target |-> b.object.type] :
                b \in Range(n.bindings)}
      [] n.type = "EXPR_RETURN" /\ n.value # NULL ->
            {[stored |-> n.value, target |-> d.fntype.func.result]}
      [] n.type = "EXPR_CALL" ->
            {[stored |-> n.args[i],
              target |-> type_dereference(n.lvalue.result).func.params[i]] :
                i \in DOMAIN n.args}
      [] n.type = "EXPR_CONSTANT" /\ "array" \in DOMAIN n.constant ->
            {[stored |-> v, target |-> n.result.array.members] :
                v \in Range(n.constant.array)}
      [] OTHER -> {}

\* the array literal a binding's initializer is, under a cast or not
ArrayOf(e) == IF IsImplicit(e) THEN e.value ELSE e

StoreKinds == {"assignment", "binding", "element", "return", "argument"}

\* the same places of the k-th statement of the outermost block of function
\* d, each with the value as check_expression returns it for the syntax:
\* [kind, stored, target, checked]
Rechecked(d, k) ==
    LET c == Inside(d, k)
        s == d.body.exprs[k]
        a == ADeclOf(d).body.exprs[k]
        declared(ab) ==
            IF ab.type # NULL
            THEN LET t == type_store_lookup_atype(c, ab.type)
                 IN type_store_lookup_with_flags(t, t.flags \cup ab.flags)
            ELSE NULL
        \* the context of the i-th initializer of a binding: the bindings
        \* before it are in the scope
        cb(i) == [c EXCEPT !.scopes[d.body.scope].objects =
                    SubSeq(ctx.scopes[d.body.scope].objects, 1,
                           Bound(d.body.exprs, k) + i - 1)]
        fntype == type_dereference(s.lvalue.result)
        params == fntype.func.params
        literals == {i \in DOMAIN s.bindings :
                        /\ a.bindings[i].initializer.type = "EXPR_CONSTANT"
                        /\ a.bindings[i].initializer.constant.storage = "ARRAY"}
        items(i) == a.bindings[i].initializer.constant.array
        values(i) == ArrayOf(s.bindings[i].initializer).constant.array
        members(i) ==
            IF declared(a.bindings[i]) # NULL
            THEN array_members(declared(a.bindings[i]))
            ELSE values(i)[1].result
    IN
    CASE s.type = "EXPR_ASSIGN" ->
            {[kind |-> "assignment", stored |-> s.value,
              target |-> IF s.indirect THEN s.object.result.pointer.referent
                         ELSE s.object.result,
              checked |-> check_expression(c, a.value, s.object.result).expr]}
      [] s.type = "EXPR_BINDING" ->
            {[kind |-> "binding", stored |-> s.bindings[i].initializer,
              target |-> s.bindings[i].object.type,
              checked |-> check_expression(cb(i), a.bindings[i].initializer,
                                           declared(a.bindings[i])).expr] :
                i \in DOMAIN s.bindings}
            \cup UNION {
                {[kind |-> "element", stored |-> values(i)[j],
                  target |-> members(i),
                  checked |-> check_expression(cb(i), items(i)[j].value,
                                               members(i)).expr] :
                    j \in DOMAIN items(i)} : i \in literals}
      [] s.type = "EXPR_RETURN" /\ s.value # NULL ->
            {[kind |-> "return", stored |-> s.value,
              target |-> d.fntype.func.result,
              checked |-> check_expression(c, a.value,
                                           d.fntype.func.result).expr]}
      [] s.type = "EXPR_CALL" ->
            {[kind |-> "argument", stored |-> s.args[i], target |-> params[i],
              checked |->
                IF fntype.func.variadism = "VARIADISM_HARE" /\ i = Len(params)
                THEN lower_vaargs(c, SubSeq(a.args, i, Len(a.args)),
                                  array_members(params[i])).expr
                ELSE check_expression(c, a.args[i].value, params[i]).expr] :
                i \in DOMAIN s.args}
      [] OTHER -> {}

\* the stores of the statements of the outermost block of function d
Statements(d) ==
    IF d.body.type = "EXPR_LIST"
    THEN UNION {Rechecked(d, k) : k \in DOMAIN d.body.exprs}
    ELSE {}

\* C4: where a value is stored for an assignment, a binding, a return, a
\* call argument or an array element, the stored child is the checked
\* expression itself if its result is the target type, and otherwise a
\* plain cast to the target type whose inner value is the checked expression.
CastsMaterialised ==
    \A d \in Functions :
        /\ \A n \in nodes(d.body) : \A st \in Stores(d, n) :
            /\ st.stored.result = st.target
            /\ IsImplicit(st.stored) =>
                /\ st.stored.kind = "C_CAST"
                /\ st.stored.value.result # st.target
        /\ \A st \in Statements(d) :
            st.stored = Materialised(st.target, st.checked)

\* a checked function that stores, in each of the five places, a value of
\* another type than the target under a cast, and a value of the target type
\* as it is
CastsMaterialisedWitness ==
    /\ pc = "done"
    /\ \E d \in Functions :
        /\ \A kind \in StoreKinds : \E st \in Statements(d) :
            /\ st.kind = kind
            /\ st.checked.result # st.target
            /\ IsImplicit(st.stored) /\ st.stored.value = st.checked
        /\ \E st \in Statements(d) :
            st.checked.result = st.target /\ st.stored = st.checked

-----------------------------------------------------------------------------
(* C5 *)

\* the direct sub-expressions of a node of the syntax tree
achildren(a) ==
    (CASE a.type = "EXPR_ACCESS" ->
            IF a.access_type = "ACCESS_INDEX" THEN {a.array, a.index}
            ELSE IF a.access_type = "ACCESS_FIELD" THEN {a.struct}
            ELSE {}
       [] a.type = "EXPR_ASSERT" -> {a.cond, a.message}
       [] a.type = "EXPR_ASSIGN" -> {a.object, a.value}
       [] a.type = "EXPR_BINARITHM" -> {a.lvalue, a.rvalue}
       [] a.type = "EXPR_BINDING" -> {b.initializer : b \in Range(a.bindings)}
       [] a.type = "EXPR_CALL" -> {a.lvalue} \cup {g.value : g \in Range(a.args)}
       [] a.type = "EXPR_CAST" -> {a.value}
       [] a.type = "EXPR_CONSTANT" ->
            IF a.constant.storage = "ARRAY"
            THEN {i.value : i \in Range(a.constant.array)}
            ELSE {}
       [] a.type = "EXPR_DEFER" -> {a.deferred}
       [] a.type = "EXPR_FOR" -> {a.bindings, a.cond, a.afterthought, a.body}
       [] a.type = "EXPR_IF" -> {a.cond, a.true_branch, a.false_branch}
       [] a.type = "EXPR_LIST" -> Range(a.exprs)
       [] a.type = "EXPR_MEASURE" -> {a.value}
       [] a.type = "EXPR_RETURN" -> {a.value}
       [] a.type = "EXPR_SLICE" -> {a.object, a.start, a.end}
       [] a.type = "EXPR_STRUCT" -> {f.initializer : f \in Range(a.fields)}
       [] a.type = "EXPR_SWITCH" ->
            {a.value} \cup UNION {Range(k.options) \cup {k.value} :
                                    k \in Range(a.cases)}
       [] a.type = "EXPR_UNARITHM" -> {a.operand}
       [] OTHER -> {}) \ {NULL}

\* the loop a break or continue with this label leaves, of the enclosing
\* loops fors (innermost last): the innermost if there is no label, else the
\* nearest whose label is the label; 0 if there is none
RECURSIVE Target(_, _)
Target(fors, label) ==
    IF fors = <<>> THEN 0
    ELSE IF label = NoLabel \/ Last(fors).label = label THEN Last(fors).scope
    ELSE Target(Front(fors), label)

\* every break and continue of the typed tree n, checked in scope cur within
\* the loops fors, has a target, and the walk of the scope chain ends there
RECURSIVE ControlsResolve(_, _, _)
ControlsResolve(n, cur, fors) ==
    IF n.type \in Control
    THEN /\ Target(fors, n.label) # 0
         /\ control_scope(ctx, cur, n.label) = Target(fors, n.label)
    ELSE IF n.type = "EXPR_FOR"
    THEN \A k \in children(n) :
            ControlsResolve(k, n.scope,
                Append(fors, [scope |-> n.scope, label |-> n.label]))
    ELSE IF n.type = "EXPR_LIST"
    THEN \A k \in children(n) : ControlsResolve(k, n.scope, fors)
    ELSE \A k \in children(n) : ControlsResolve(k, cur, fors)

\* the labels of the breaks and continues of the syntax tree a that have no
\* target among the enclosing loops, whose labels are fors (innermost last)
RECURSIVE Untargeted(_, _)
Untargeted(a, fors) ==
    IF a.type \in Control
    THEN IF Target([i \in DOMAIN fors |-> [scope |-> i, label |-> fors[i]]],
                   a.label) = 0
         THEN {a.label} ELSE {}
    ELSE UNION {Untargeted(k, IF a.type = "EXPR_FOR"
                              THEN Append(fors, a.label) ELSE fors) :
                    k \in achildren(a)}

\* the expression of the declaration at which the check stopped
Failing ==
    IF aunit[su][di].decl_type = "AST_DECL_FUNC" THEN aunit[su][di].body
    ELSE aunit[su][di].init

\* the message of a break or continue that finds no loop
UnknownLabel(label) ==
    unknown_label(IF label = NoLabel THEN "(null)" ELSE label)

\* the labels a break or continue of the inputs can carry
ControlLabels == Labels \cup {NoLabel}

\* C5: a break or continue is accepted iff a for encloses it that its label
\* selects - the innermost for an unlabeled one, the nearest of that label for
\* a labeled one - and the walk from the current scope outwards ends at that
\* for's scope; one that no for matches fails the check with Unknown label.
ControlResolution ==
    /\ \A d \in Functions :
        /\ ControlsResolve(d.body, d.scope, <<>>)
        /\ Untargeted(ADeclOf(d).body, <<>>) = {}
    /\ \A l \in ControlLabels :
        (pc = "aborted" /\ error = UnknownLabel(l))
        => l \in Untargeted(Failing, <<>>)

\* a checked function with a labeled break that leaves a loop which is not
\* the innermost, through a block
ControlResolutionWitness ==
    /\ pc = "done"
    /\ \E d \in Functions : \E f \in nodes(d.body) : \E g \in nodes(f) :
        \E n \in nodes(g) :
        /\ f.type = "EXPR_FOR" /\ g.type = "EXPR_FOR" /\ f # g
        /\ n.type \in Control
        /\ n.label # NoLabel /\ f.label = n.label /\ g.label # n.label

-----------------------------------------------------------------------------
(* C6 *)

\* a scope and its ancestors, by the parent pointers
RECURSIVE Chain(_)
Chain(scope) ==
    IF scope = 0 THEN {} ELSE {scope} \cup Chain(ctx.scopes[scope].parent)

\* every identifier access of the typed tree n, checked in scope cur, refers
\* to an object that lies in cur or in an ancestor of cur
RECURSIVE AccessesInChain(_, _)
AccessesInChain(n, cur) ==
    IF n.type = "EXPR_ACCESS" /\ n.access_type = "ACCESS_IDENTIFIER"
    THEN /\ n.object.scope \in Chain(cur)
         /\ n.object.index \in DOMAIN ctx.scopes[n.object.scope].objects
         /\ ctx.scopes[n.object.scope].objects[n.object.index] = n.object
    ELSE \A k \in children(n) :
            AccessesInChain(k, IF n.type \in {"EXPR_LIST", "EXPR_FOR"}
                               THEN n.scope ELSE cur)

\* the names a syntax tree binds in the scope it is checked in: those of its
\* bindings that are not inside a list or a for of its own
RECURSIVE Binds(_)
Binds(a) ==
    IF a = NULL \/ a.type \in {"EXPR_LIST", "EXPR_FOR"} THEN {}
    ELSE (IF a.type = "EXPR_BINDING"
          THEN {<<b.name>> : b \in Range(a.bindings)} ELSE {})
         \cup UNION {Binds(k) : k \in achildren(a)}

\* the identifiers of the syntax tree a that name nothing visible where they
\* stand, vis being the names visible where a starts: a list and a for open a
\* scope of their own, a binding is visible after its initializer until the
\* scope it stands in is closed
RECURSIVE Unbound(_, _)
Unbound(a, vis) ==
    LET RECURSIVE Each(_, _, _)
        Each(q, k, v) ==
            IF k > Len(q) THEN {}
            ELSE Unbound(q[k], v) \cup Each(q, k + 1, v \cup Binds(q[k]))
        RECURSIVE EachBinding(_, _, _)
        EachBinding(q, k, v) ==
            IF k > Len(q) THEN {}
            ELSE Unbound(q[k].initializer, v)
                 \cup EachBinding(q, k + 1,
                        v \cup Binds(q[k].initializer) \cup {<<q[k].name>>})
    IN
    IF a = NULL THEN {}
    ELSE IF a.type = "EXPR_ACCESS" /\ a.access_type = "ACCESS_IDENTIFIER"
    THEN IF a.ident \in vis THEN {} ELSE {a.ident}
    ELSE IF a.type = "EXPR_LIST" THEN Each(a.exprs, 1, vis)
    ELSE IF a.type = "EXPR_BINDING"
    THEN EachBinding(a.bindings, 1, vis)
    ELSE IF a.type = "EXPR_FOR"
    THEN Each(<<a.bindings, a.cond, a.afterthought, a.body>>, 1, vis)
    ELSE UNION {Unbound(k, vis) : k \in achildren(a)}

\* the names by which the objects of a scope are found
Names(scope) ==
    UNION {{o.ident, o.name} : o \in Range(ctx.scopes[scope].objects)}

\* the names visible where the body of function a of subunit i starts
Visible(i, a) ==
    Names(ctx.unit) \cup Names(subunit_scopes[i])
    \cup {<<p.name>> : p \in Range(a.prototype.params)}

\* the functions with a body of the syntax tree, each with its subunit
AFunctions ==
    {ia \in UNION {{i} \X Range(aunit[i]) : i \in DOMAIN aunit} :
        ia[2].decl_type = "AST_DECL_FUNC" /\ ia[2].body # NULL}

\* C6: every identifier access refers to an object of the scope current
\* where it is checked or of an ancestor of it; a name bound inside a list
\* or a for is not resolved once that list or for is closed.
AccessesResolveInScope ==
    /\ \A d \in Functions : AccessesInChain(d.body, d.scope)
    /\ pc = "done" =>
        \A ia \in AFunctions : Unbound(ia[2].body, Visible(ia[1], ia[2])) = {}
    /\ (/\ pc = "aborted" /\ su \in DOMAIN subunit_scopes
        /\ aunit[su][di].decl_type = "AST_DECL_FUNC") =>
        \A id \in Unbound(Failing, {}) :
            error = unknown_object(id)
            => id \in Unbound(Failing, Visible(su, aunit[su][di]))

\* a checked function with an access to a name bound in a list or a for,
\* while an earlier list or for, closed by then, has bound the same name
AccessesResolveInScopeWitness ==
    /\ pc = "done"
    /\ \E d \in Functions : \E n \in nodes(d.body) :
        /\ n.type = "EXPR_ACCESS" /\ n.access_type = "ACCESS_IDENTIFIER"
        /\ n.object.otype = "O_BIND"
        /\ ctx.scopes[n.object.scope].type \in {"EXPR_LIST", "EXPR_FOR"}
        /\ \E s \in DOMAIN ctx.scopes :
            /\ s < n.object.scope
            /\ s \notin Chain(n.object.scope)
            /\ \E o \in Range(ctx.scopes[s].objects) : o.name = n.object.name

-----------------------------------------------------------------------------
(* C7 *)

\* the nodes of a syntax tree, at every depth
RECURSIVE anodes(_)
anodes(a) == {a} \cup UNION {anodes(k) : k \in achildren(a)}

\* the identifiers a syntax tree accesses
Identifiers(a) ==
    {n.ident : n \in {k \in anodes(a) :
        k.type = "EXPR_ACCESS" /\ k.access_type = "ACCESS_IDENTIFIER"}}

\* the statements of the outermost block of function d that are an
\* identifier, each with the object the identifier finds there:
\* [typed, object]
Named(d) ==
    IF d.body.type # "EXPR_LIST" THEN {}
    ELSE {[typed |-> d.body.exprs[k],
           object |-> scope_lookup(Inside(d, k), d.body.scope,
                                   ADeclOf(d).body.exprs[k].ident)] :
            k \in {j \in DOMAIN d.body.exprs :
                    /\ ADeclOf(d).body.exprs[j].type = "EXPR_ACCESS"
                    /\ ADeclOf(d).body.exprs[j].access_type
                        = "ACCESS_IDENTIFIER"}}

\* C7: an identifier that finds an O_CONST object is replaced by a copy of
\* the constant expression stored with it, so no access node of a checked
\* tree refers to an O_CONST object; an identifier that finds an O_TYPE
\* object is rejected with "Expected identifier, got type".
ConstantsSpliced ==
    /\ \A n \in Checked :
        (n.type = "EXPR_ACCESS" /\ n.access_type = "ACCESS_IDENTIFIER")
        => n.object.otype \notin {"O_CONST", "O_TYPE"}
    /\ \A d \in Functions : \A st \in Named(d) :
        /\ st.object # NULL
        /\ st.object.otype # "O_TYPE"
        /\ st.object.otype = "O_CONST" => st.typed = st.object.value
    /\ (pc = "aborted" /\ error = "Expected identifier, got type") =>
        \E id \in Identifiers(Failing) :
            /\ scope_lookup(ctx, ctx.scope, id) # NULL
            /\ scope_lookup(ctx, ctx.scope, id).otype = "O_TYPE"

\* a checked function with an identifier of a constant for a statement, the
\* constant's expression in its place
ConstantsSplicedWitness ==
    /\ pc = "done"
    /\ \E d \in Functions : \E st \in Named(d) :
        /\ st.object.otype = "O_CONST"
        /\ st.typed.type = "EXPR_CONSTANT"
        /\ st.typed.constant = [ival |-> 1]

-----------------------------------------------------------------------------
(* C8 *)

\* the places of the declarations: <<subunit, index>>
Positions == UNION {{i} \X DOMAIN aunit[i] : i \in DOMAIN aunit}

\* the enum type declarations whose scan is over
ScannedEnums ==
    {aunit[p[1]][p[2]] : p \in {q \in Positions :
        /\ aunit[q[1]][q[2]].decl_type = "AST_DECL_TYPE"
        /\ aunit[q[1]][q[2]].type.storage = "ENUM"
        /\ \/ pc \in {"check", "done"}
           \/ pc = "scan" /\ (su > q[1] \/ (su = q[1] /\ di > q[2]))}}

\* their values: [decl, value]
ScannedEnumValues ==
    UNION {{[decl |-> a, value |-> v] : v \in Range(a.type.values)} :
            a \in ScannedEnums}

\* C8: once an enum type E is scanned, the short identifier E::V and the
\* fully-qualified identifier namespace::E::V of each of its values V find,
\* by scope lookup, the same O_CONST object, which carries the value of V.
EnumValuesBothWays ==
    \A dv \in ScannedEnumValues :
        LET short == scope_lookup(ctx, ctx.unit,
                        dv.decl.ident \o <<dv.value.name>>)
            full == scope_lookup(ctx, ctx.unit,
                        unit.ns \o dv.decl.ident \o <<dv.value.name>>)
        IN /\ short # NULL
           /\ short = full
           /\ short.otype = "O_CONST"
           /\ short.value.type = "EXPR_CONSTANT"
           /\ short.value.constant \in {[ival |-> dv.value.ival],
                                        [uval |-> dv.value.ival]}

\* the scan of a unit with a namespace is over, and an enum type with two
\* values is among its declarations
EnumValuesBothWaysWitness ==
    /\ pc = "check"
    /\ unit.ns # <<>>
    /\ \E dv \in ScannedEnumValues, dw \in ScannedEnumValues :
        dv.decl = dw.decl /\ dv.value.ival # dw.value.ival

-----------------------------------------------------------------------------
(* C9 *)

\* C9: no function flagged @init, @fini or @test that is exported, or whose
\* result is not void, is ever among the declarations of the typed unit: the
\* check of such a declaration fails.
AttributedFunctionsRefused ==
    \A d \in Functions :
        d.flags \cap FnAttributes # {}
        => ~d.exported /\ d.fntype.func.result = builtin_type_void

-----------------------------------------------------------------------------
(* C10 *)

\* the objects of every scope
Objects == UNION {Range(ctx.scopes[s].objects) : s \in DOMAIN ctx.scopes}

\* the objects the static bindings have inserted: those of a generated name
StaticObjects ==
    {o \in Objects : \E n \in 0..ctx.id : o.ident = static_name(n)}

\* the objects of the static bindings of a typed function
StaticBindings(d) ==
    {b.object : b \in UNION {Range(n.bindings) :
                    n \in {k \in nodes(d.body) : k.type = "EXPR_BINDING"}}}
    \cap {o \in Objects : o.otype = "O_DECL"}

\* no two static bindings share a generated name, each static binding has
\* taken one number, and the counter has gone up by one for each
StaticNames ==
    /\ \A o1 \in StaticObjects, o2 \in StaticObjects :
        o1 # o2 => o1.ident # o2.ident
    /\ Cardinality(StaticObjects) = ctx.id
    /\ \A d \in Functions : StaticBindings(d) \subseteq StaticObjects

\* C10: the counter of generated names never goes down in a check, it goes
\* up by one for each static binding and is not reset between functions or
\* subunits, so that no two static bindings of a unit share a name static.N.
StaticCounter ==
    /\ []StaticNames
    /\ [][ctx'.id >= ctx.id]_vars

\* a checked unit of two subunits, each with a function that has a static
\* binding, three static bindings in all
StaticCounterWitness ==
    /\ pc = "done"
    /\ Len(aunit) = 2
    /\ ctx.id = 3
    /\ \E d1 \in Functions, d2 \in Functions :
        /\ d1 # d2
        /\ StaticBindings(d1) # {} /\ StaticBindings(d2) # {}
        /\ \A o1 \in StaticBindings(d1), o2 \in StaticBindings(d2) :
            o1.ident # o2.ident

-----------------------------------------------------------------------------
(* C11: defers do not nest *)

DeferNested == "Cannot defer within another defer expression."

\* the defers of an AST that stand inside the deferred expression of another
ANestedDefers(a) ==
    UNION {{k \in anodes(d.deferred) : k.type = "EXPR_DEFER"} :
            d \in {n \in anodes(a) : n.type = "EXPR_DEFER"}}

\* the defers of a typed tree that stand inside another's deferred expression
NestedDefers(e) ==
    UNION {{k \in nodes(d.deferred) : k.type = "EXPR_DEFER"} :
            d \in {n \in nodes(e) : n.type = "EXPR_DEFER"}}

\* C11: the deferring flag is clear whenever a declaration has been checked;
\* a unit that is checked holds no defer inside another defer, in the source
\* or in the typed tree, and every defer of the source is a defer of the
\* typed tree; the check stops with the defer message only on a declaration
\* that holds a defer inside another
DefersDoNotNest ==
    /\ pc # "aborted" => ~ctx.deferring
    /\ pc = "done" =>
        /\ \A ia \in AFunctions : ANestedDefers(ia[2].body) = {}
        /\ \A d \in Functions :
            /\ NestedDefers(d.body) = {}
            /\ Cardinality({n \in nodes(d.body) : n.type = "EXPR_DEFER"})
                = Cardinality({n \in anodes(ADeclOf(d).body) :
                                n.type = "EXPR_DEFER"})
    /\ pc = "aborted" /\ su \in DOMAIN subunit_scopes =>
        (error = DeferNested => ctx.deferring /\ ANestedDefers(Failing) # {})

\* a body of two defers side by side has been checked
DefersSideBySide ==
    /\ pc = "done"
    /\ ~ctx.deferring
    /\ \E d \in Functions :
        /\ d.body.type = "EXPR_LIST"
        /\ Len(d.body.exprs) = 3
        /\ d.body.exprs[1].type = "EXPR_DEFER"
        /\ d.body.exprs[2].type = "EXPR_DEFER"

\* the check has stopped on a defer two levels inside another, in a body
\* whose first statement is a defer that was accepted
DefersDoNotNestWitness ==
    /\ pc = "aborted"
    /\ su \in DOMAIN subunit_scopes
    /\ error = DeferNested
    /\ Failing.type = "EXPR_LIST"
    /\ Failing.exprs[1].type = "EXPR_DEFER"
    /\ ANestedDefers(Failing.exprs[1]) = {}
    /\ Failing.exprs[2].type = "EXPR_DEFER"
    /\ Failing.exprs[2].deferred.type = "EXPR_LIST"

-----------------------------------------------------------------------------
(* C12: the arguments of a call of a variadic function *)

\* the statements of the body of d that call a function of native variadism
\* with an argument for every parameter and none of them spread
VariadicCalls(d) ==
    IF d.body.type # "EXPR_LIST" THEN {}
    ELSE {k \in DOMAIN d.body.exprs :
            /\ d.body.exprs[k].type = "EXPR_CALL"
            /\ LET fntype == type_dereference(d.body.exprs[k].lvalue.result)
                   aargs == ADeclOf(d).body.exprs[k].args
               IN /\ fntype.func.variadism = "VARIADISM_HARE"
                  /\ Len(aargs) >= Len(fntype.func.params)
                  /\ \A i \in DOMAIN aargs : ~aargs[i].variadic}

\* the k-th statement of d: n arguments, the first n - 1 the source's own,
\* checked one by one, the n-th an array literal of the rest in order, cast
\* to the type of the last parameter
VariadicCall(d, k) ==
    LET c == Inside(d, k)
        s == d.body.exprs[k]
        aargs == ADeclOf(d).body.exprs[k].args
        params == type_dereference(s.lvalue.result).func.params
        n == Len(params)
        members == params[n].array.members
        rest == s.args[n].value.constant.array
    IN /\ Len(s.args) = n
       /\ \A i \in 1..(n - 1) :
            s.args[i] = lower_implicit_cast(params[i],
                            check_expression(c, aargs[i].value, params[i]).expr)
       /\ s.args[n].type = "EXPR_CAST"
       /\ s.args[n].kind = "C_CAST"
       /\ s.args[n].result = params[n]
       /\ s.args[n].value.type = "EXPR_CONSTANT"
       /\ s.args[n].value.result
            = type_store_lookup_array(members, Len(aargs) - n + 1)
       /\ Len(rest) = Len(aargs) - n + 1
       /\ \A j \in DOMAIN rest :
            rest[j] = lower_implicit_cast(members,
                        check_expression(c, aargs[n - 1 + j].value, members).expr)

\* C12: a checked call of a variadic function with k >= n arguments, none
\* spread, has n arguments, the last an array literal of the remaining
\* k - n + 1 in order, cast to the variadic parameter's type
VariadicArguments ==
    \A d \in Functions : \A k \in VariadicCalls(d) : VariadicCall(d, k)

\* a checked call that passes two arguments to the variadic parameter
VariadicArgumentsWitness ==
    \E d \in Functions : \E k \in VariadicCalls(d) :
        /\ Len(ADeclOf(d).body.exprs[k].args) = 3
        /\ Len(d.body.exprs[k].args) = 2
        /\ Len(d.body.exprs[k].args[2].value.constant.array) = 2

-----------------------------------------------------------------------------
(* C13: the arity of a call *)

TooMany == "Too many parameters for function call"
NotEnough == "Not enough parameters for function call"

\* the last parameter of fntype takes every argument from its own on
Absorbs(fntype, aargs) ==
    /\ fntype.func.variadism = "VARIADISM_HARE"
    /\ Len(aargs) >= Len(fntype.func.params)
    /\ ~aargs[Len(fntype.func.params)].variadic

\* how many arguments are paired one to one with a parameter
PairedOff(fntype, aargs) ==
    IF Absorbs(fntype, aargs) THEN Len(fntype.func.params) - 1
    ELSE IF Len(aargs) < Len(fntype.func.params) THEN Len(aargs)
    ELSE Len(fntype.func.params)

\* every argument that is paired, checked in c, suits its parameter
ArgumentsFit(c, fntype, aargs) ==
    LET params == fntype.func.params IN
    /\ \A i \in 1..PairedOff(fntype, aargs) :
        LET v == check_expression(c, aargs[i].value, params[i])
        IN /\ v.err = OK
           /\ v.expr.result # NULL
           /\ type_is_assignable(params[i], v.expr.result)
    /\ Absorbs(fntype, aargs) =>
        lower_vaargs(c, SubSeq(aargs, Len(params), Len(aargs)),
                     array_members(params[Len(params)])).err = OK

\* a body whose first statement is its one call, of a declared function
CallFirst(body) ==
    /\ body.type = "EXPR_LIST"
    /\ body.exprs[1].type = "EXPR_CALL"
    /\ Cardinality({n \in anodes(body) : n.type = "EXPR_CALL"}) = 1
    /\ body.exprs[1].lvalue.type = "EXPR_ACCESS"
    /\ body.exprs[1].lvalue.access_type = "ACCESS_IDENTIFIER"

\* the call a names an object that the scopes of c hold
CalleeKnown(c, a) == scope_lookup(c, c.scope, a.lvalue.ident) # NULL

\* the type of the function that the call a names, looked up in c
Callee(c, a) == scope_lookup(c, c.scope, a.lvalue.ident).type

\* C13: a call whose paired arguments suit their parameters stops the check
\* with 'Too many parameters' exactly when arguments are left and with 'Not
\* enough parameters' exactly when parameters are left, a variadic last
\* parameter taking the rest only if an argument is left for it; a call that
\* is checked has an argument for every parameter and none left
CallArity ==
    /\ pc = "aborted" /\ su \in DOMAIN subunit_scopes =>
        ((/\ aunit[su][di].decl_type = "AST_DECL_FUNC"
          /\ CallFirst(Failing)
          /\ CalleeKnown(ctx, Failing.exprs[1])) =>
            LET a == Failing.exprs[1]
                fntype == Callee(ctx, a)
                n == Len(fntype.func.params)
                fit == ArgumentsFit(ctx, fntype, a.args)
            IN /\ error = TooMany
                    <=> fit /\ ~Absorbs(fntype, a.args) /\ Len(a.args) > n
               /\ error = NotEnough
                    <=> fit /\ ~Absorbs(fntype, a.args) /\ Len(a.args) < n)
    /\ \A d \in Functions :
        CallFirst(ADeclOf(d).body) =>
            LET a == ADeclOf(d).body.exprs[1]
                fntype == type_dereference(d.body.exprs[1].lvalue.result)
            IN /\ Absorbs(fntype, a.args)
                    \/ Len(a.args) = Len(fntype.func.params)
               /\ fntype.func.variadism = "VARIADISM_NONE"
                    => Len(a.args) = Len(fntype.func.params)

\* the check has stopped on a call of the variadic v with no argument left
\* for its last parameter
CallArityWitness ==
    /\ pc = "aborted"
    /\ su \in DOMAIN subunit_scopes
    /\ aunit[su][di].decl_type = "AST_DECL_FUNC"
    /\ CallFirst(Failing)
    /\ error = NotEnough
    /\ Callee(ctx, Failing.exprs[1]).func.variadism = "VARIADISM_HARE"
    /\ Len(Failing.exprs[1].args) = 1

\* the check has stopped on a call with an argument too many
CallTooMany ==
    /\ pc = "aborted"
    /\ su \in DOMAIN subunit_scopes
    /\ aunit[su][di].decl_type = "AST_DECL_FUNC"
    /\ CallFirst(Failing)
    /\ error = TooMany

-----------------------------------------------------------------------------
(* C14: the first violation ends the run *)

\* a body of identifiers, bindings of a constant and returns, one after another
Leafy(body) ==
    /\ body.type = "EXPR_LIST"
    /\ \A k \in DOMAIN body.exprs :
        \/ body.exprs[k].type = "EXPR_ACCESS"
           /\ body.exprs[k].access_type = "ACCESS_IDENTIFIER"
        \/ body.exprs[k].type = "EXPR_BINDING"
           /\ \A b \in Range(body.exprs[k].bindings) :
                b.initializer.type = "EXPR_CONSTANT" /\ ~b.is_static
        \/ body.exprs[k].type = "EXPR_RETURN" /\ body.exprs[k].value = NULL

\* the statements of a leafy body that name nothing, or a type, in c
Refused(c, exprs) ==
    {k \in DOMAIN exprs :
        /\ exprs[k].type = "EXPR_ACCESS"
        /\ LET obj == scope_lookup(c, c.scope, exprs[k].ident)
           IN obj = NULL \/ obj.otype = "O_TYPE"}

FirstRefused(c, exprs) ==
    CHOOSE k \in Refused(c, exprs) : \A j \in Refused(c, exprs) : k <= j

\* the message of the expect that refuses the identifier ident in c
RefusedWith(c, ident) ==
    IF scope_lookup(c, c.scope, ident) = NULL THEN unknown_object(ident)
    ELSE "Expected identifier, got type"

\* the check has stopped in a function whose body is leafy, on an identifier
StoppedInLeafy ==
    /\ pc = "aborted"
    /\ su \in DOMAIN subunit_scopes
    /\ aunit[su][di].decl_type = "AST_DECL_FUNC"
    /\ Leafy(Failing)
    /\ \/ error = "Expected identifier, got type"
       \/ \E a \in Range(Failing.exprs) :
            a.type = "EXPR_ACCESS" /\ error = unknown_object(a.ident)

\* where the check has stopped in a leafy body, the scope of the body is the
\* last one pushed and holds the bindings before the refused statement and
\* no other, the message is that statement's, and the function is not in
\* the unit
StoppedAtFirst ==
    StoppedInLeafy =>
        /\ Refused(ctx, Failing.exprs) # {}
        /\ LET j == FirstRefused(ctx, Failing.exprs)
           IN /\ ctx.scope = Len(ctx.scopes)
              /\ Len(ctx.scopes[ctx.scope].objects) = Bound(Failing.exprs, j)
              /\ error = RefusedWith(ctx, Failing.exprs[j].ident)
        /\ \A d \in Range(unit.declarations) :
            Last(d.ident) # Last(aunit[su][di].ident)

\* a step is taken only while no expect has failed, and the step in which
\* one fails ends the run where it is, with no declaration appended
StopsAtExpect ==
    /\ error = OK
    /\ error' # OK =>
        /\ pc' = "aborted"
        /\ unit' = unit
        /\ UNCHANGED <<aunit, su, di, subunit_scopes>>

\* C14: once an expect fails nothing more is checked, no object is inserted
\* into a scope and no declaration is appended to the unit
FirstViolationEndsRun ==
    /\ []StoppedAtFirst
    /\ [][StopsAtExpect]_vars

\* the check has stopped in a leafy body before a binding of that body
FirstViolationEndsRunWitness ==
    /\ StoppedInLeafy
    /\ LET j == FirstRefused(ctx, Failing.exprs)
       IN /\ Failing.exprs[j + 1].type = "EXPR_BINDING"
          /\ ctx.scopes[ctx.scope].objects = <<>>

-----------------------------------------------------------------------------
(* C15: the label of a for loop among its ancestors *)

LabelTaken == "for loop label must be unique among its ancestors"

\* some labeled for of the AST a stands inside a for of the same label, the
\* fors around a carrying the labels in labels
RECURSIVE Clashes(_, _)
Clashes(a, labels) ==
    LET own == IF a.type = "EXPR_FOR" /\ a.label # NoLabel
               THEN {a.label} ELSE {}
    IN \/ own \cap labels # {}
       \/ \E k \in achildren(a) : Clashes(k, labels \cup own)

\* a body in which nothing but the label of a for can be refused: blocks of
\* constants and of fors over a constant condition, closed by a plain return
OnlyLoops(a) ==
    \A n \in anodes(a) :
        \/ n.type = "EXPR_LIST" /\ n = a
        \/ n.type = "EXPR_CONSTANT"
        \/ n.type = "EXPR_RETURN" /\ n.value = NULL /\ n = Last(a.exprs)
        \/ /\ n.type = "EXPR_FOR"
           /\ n.bindings = NULL /\ n.afterthought = NULL
           /\ n.cond = True

\* C15: a checked function holds no labeled for inside a for of the same
\* label; the check stops with the label message only in a declaration that
\* holds one, and does stop with it where nothing else can be refused; fors
\* side by side and unlabeled fors are not refused for their label
ForLabelsUnique ==
    /\ \A d \in Functions : ~Clashes(ADeclOf(d).body, {})
    /\ pc = "aborted" /\ su \in DOMAIN subunit_scopes =>
        /\ error = LabelTaken => Clashes(Failing, {})
        /\ aunit[su][di].decl_type = "AST_DECL_FUNC"
           /\ Failing.type = "EXPR_LIST" /\ OnlyLoops(Failing)
           /\ Clashes(Failing, {})
            => error = LabelTaken
    /\ pc = "done" =>
        \A ia \in AFunctions :
            ia[2].body.type = "EXPR_LIST" /\ OnlyLoops(ia[2].body)
                => ~Clashes(ia[2].body, {})

\* a checked body of two fors side by side under one label, the second
\* around an unlabeled for
ForLabelsUniqueWitness ==
    /\ pc = "done"
    /\ \E d \in Functions :
        /\ d.body.type = "EXPR_LIST"
        /\ Len(d.body.exprs) = 3
        /\ d.body.exprs[1].type = "EXPR_FOR" /\ d.body.exprs[1].label = "a"
        /\ d.body.exprs[2].type = "EXPR_FOR" /\ d.body.exprs[2].label = "a"
        /\ d.body.exprs[2].body.type = "EXPR_FOR"
        /\ d.body.exprs[2].body.label = NoLabel

\* the check has stopped on the second of two fors, for the label of the
\* for around it
ForLabelRefused ==
    /\ pc = "aborted"
    /\ su \in DOMAIN subunit_scopes
    /\ error = LabelTaken
    /\ Failing.type = "EXPR_LIST"
    /\ ~Clashes(Failing.exprs[1], {})
    /\ Failing.exprs[1].type = "EXPR_FOR"

-----------------------------------------------------------------------------
(* C16: the initializer of a static binding *)

\* what constant evaluation makes of the initializer a binding node holds,
\* taken as it is stored and as it was before its implicit cast
Evaluated(initializer) ==
    {eval_expr(in).value :
        in \in {initializer} \cup (IF initializer.type = "EXPR_CAST"
                                   THEN {initializer.value} ELSE {})}

\* the binding nodes that the statements of the body of d have for the
\* bindings the source declares static
StaticStored(d) ==
    IF d.body.type # "EXPR_LIST" THEN {}
    ELSE UNION {{d.body.exprs[k].bindings[i] :
                    i \in {j \in DOMAIN d.body.exprs[k].bindings :
                            ADeclOf(d).body.exprs[k].bindings[j].is_static}} :
                k \in {j \in DOMAIN d.body.exprs :
                        d.body.exprs[j].type = "EXPR_BINDING"}}

\* C16: the binding node of a static binding holds the evaluated value of
\* its initializer, and its object is an O_DECL
StaticInitializerEvaluated ==
    \A d \in Functions : \A b \in StaticStored(d) :
        /\ b.object.otype = "O_DECL"
        /\ b.initializer \in Evaluated(b.initializer)

-----------------------------------------------------------------------------
(* C17: the result of a switch *)

\* the cases of a switch node whose body does not terminate
Open(n) == {i \in DOMAIN n.cases : ~n.cases[i].value.terminates}

\* C17: a checked switch whose case bodies all terminate, or that has no
\* case, is void and terminates; any other does not terminate and has the
\* result of its first case that does not terminate, which is the result of
\* every later case that does not terminate
SwitchResult ==
    \A n \in {k \in Checked : k.type = "EXPR_SWITCH"} :
        IF Open(n) = {}
        THEN n.result = builtin_type_void /\ n.terminates
        ELSE LET first == CHOOSE i \in Open(n) : \A j \in Open(n) : i <= j
             IN /\ ~n.terminates
                /\ n.result = n.cases[first].value.result
                /\ \A i \in Open(n) : n.cases[i].value.result = n.result

\* a checked switch whose first case terminates and whose second does not
SwitchResultWitness ==
    \E n \in {k \in Checked : k.type = "EXPR_SWITCH"} :
        /\ Len(n.cases) = 2
        /\ n.cases[1].value.terminates
        /\ ~n.cases[2].value.terminates
        /\ n.result = builtin_type_int

\* a checked switch without a case
SwitchEmpty ==
    \E n \in {k \in Checked : k.type = "EXPR_SWITCH"} : n.cases = <<>>

\* the check has stopped on a switch of an int case and a bool case
SwitchMixed ==
    /\ pc = "aborted"
    /\ su \in DOMAIN subunit_scopes
    /\ error = SIGABRT
    /\ aunit[su][di].decl_type = "AST_DECL_FUNC"
    /\ Failing.type = "EXPR_LIST"
    /\ Failing.exprs[1].type = "EXPR_SWITCH"

-----------------------------------------------------------------------------
(* C18: the object of a slice expression *)

\* the type has the shape of something that can be sliced
Sliceable(type) == type # NULL /\ type.storage \in {"ARRAY", "SLICE"}

\* the check has stopped in a body whose first statement slices a bound
\* name, with no operand that could be refused
StoppedOnSlice ==
    /\ pc = "aborted"
    /\ su \in DOMAIN subunit_scopes
    /\ aunit[su][di].decl_type = "AST_DECL_FUNC"
    /\ Failing.type = "EXPR_LIST"
    /\ Failing.exprs[1].type = "EXPR_SLICE"
    /\ Failing.exprs[1].start = NULL
    /\ Failing.exprs[1].end = NULL
    /\ Failing.exprs[1].object.type = "EXPR_ACCESS"
    /\ scope_lookup(ctx, ctx.scope, Failing.exprs[1].object.ident) # NULL

\* C18: a checked slice is a slice of the members of its object's type
\* dereferenced, which is an array or a slice; a slice of a name is refused
\* only if the type of the name, dereferenced, is none or is neither
SliceDereferencesObject ==
    /\ \A n \in {k \in Checked : k.type = "EXPR_SLICE"} :
        LET atype == type_dereference(n.object.result)
        IN /\ Sliceable(atype)
           /\ n.result = type_store_lookup_slice(atype.array.members)
    /\ StoppedOnSlice =>
        ~Sliceable(type_dereference(
            scope_lookup(ctx, ctx.scope, Failing.exprs[1].object.ident).type))

-----------------------------------------------------------------------------
(* C19: a return outside a function *)

\* the messages of the expects that scan_const and check_global come to
\* once the initializer has been checked
AfterInitializer ==
    {"Constant type is not assignable from initializer type",
     "Unable to evaluate constant initializer at compile time",
     "Unable to evaluate global initializer at compile time"}

\* the check has stopped in a constant or a global whose initializer is a
\* return
StoppedOnReturn ==
    /\ pc = "aborted"
    /\ aunit[su][di].decl_type \in {"AST_DECL_CONST", "AST_DECL_GLOBAL"}
    /\ aunit[su][di].init # NULL
    /\ aunit[su][di].init.type = "EXPR_RETURN"

\* C19: no function type is current between two declarations, and a return
\* that is the initializer of a constant or a global is itself refused: the
\* check does not get to the expects that follow the initializer
ReturnNeedsFunction ==
    /\ pc # "aborted" => ctx.current_fntype = NULL
    /\ StoppedOnReturn => error \notin AfterInitializer

-----------------------------------------------------------------------------
(* C20: the message of an assert that has none *)

\* the statements of the body of d that are asserts without a message
BareAsserts(d) ==
    IF d.body.type # "EXPR_LIST" THEN {}
    ELSE {k \in DOMAIN d.body.exprs :
            /\ d.body.exprs[k].type = "EXPR_ASSERT"
            /\ ADeclOf(d).body.exprs[k].message = NULL}

\* C20: the message of a checked assert that has none in the source is a
\* string constant of the whole text "Assertion failed: <path>:<line>:<col>"
\* of the assert's location, its length the length of that text
AssertMessageWhole ==
    \A d \in Functions : \A k \in BareAsserts(d) :
        LET message == d.body.exprs[k].message
            text == assert_format(ADeclOf(d).body.exprs[k].loc)
        IN /\ message.type = "EXPR_CONSTANT"
           /\ message.result.storage = "STRING"
           /\ message.constant.string.value = text
           /\ message.constant.string.len = Len(message.constant.string.value)

-----------------------------------------------------------------------------
(* C21: scope pushes and pops are balanced *)

\* the typed nodes that push a scope of their own
Pushing == {"EXPR_LIST", "EXPR_FOR"}

\* the nearest nodes at or under e that push a scope
RECURSIVE Pushes(_)
Pushes(e) ==
    IF e.type \in Pushing THEN {e}
    ELSE UNION {Pushes(k) : k \in children(e)}

\* the nearest nodes strictly under e that push a scope
PushesUnder(e) == UNION {Pushes(k) : k \in children(e)}

\* every scope pushed under the node e was pushed while the scope of the
\* nearest pushing node around it was the current one
RECURSIVE Nests(_)
Nests(e) ==
    \A m \in PushesUnder(e) :
        /\ ctx.scopes[m.scope].parent = e.scope
        /\ Nests(m)

\* the k-th statement of the outermost block of d, checked again where it
\* was checked, leaves the block's scope the current one
ReturnsToScope(d, k) ==
    LET r == check_expression(Inside(d, k), ADeclOf(d).body.exprs[k], NULL)
    IN r.err = OK /\ r.ctx.scope = d.body.scope

\* C21: a check_expression that returns leaves the current scope the one it
\* was entered with, at any nesting of lists and for loops - every scope
\* pushed inside a list or for has that list's or for's scope as parent, and
\* a statement checked in a block returns to the block's scope - and between
\* the declarations of a subunit the current scope is the subunit's scope,
\* in the scan as in the check
ScopesBalanced ==
    /\ pc = "check" /\ di >= 1 => ctx.scope = subunit_scopes[su]
    /\ pc = "scan" /\ di >= 1 =>
            /\ ctx.scopes[ctx.scope].parent = ctx.unit
            /\ ctx.scopes[ctx.scope].type = ZeroedType
    /\ \A d \in Functions :
            /\ ctx.scopes[d.scope].parent \in Range(subunit_scopes)
            /\ \A m \in Pushes(d.body) :
                    ctx.scopes[m.scope].parent = d.scope /\ Nests(m)
            /\ d.body.type = "EXPR_LIST" =>
                    \A k \in DOMAIN d.body.exprs : ReturnsToScope(d, k)

\* a checked function was left whose body holds a for loop around a scope of
\* its own with another scope pushed after it in the same block
ScopesBalancedWitness ==
    /\ pc = "check"
    /\ di >= 1
    /\ \E d \in Functions :
            /\ d.body.type = "EXPR_LIST"
            /\ \E i, j \in DOMAIN d.body.exprs :
                    /\ i < j
                    /\ d.body.exprs[i].type = "EXPR_FOR"
                    /\ PushesUnder(d.body.exprs[i]) # {}
                    /\ Pushes(d.body.exprs[j]) # {}

-----------------------------------------------------------------------------
(* C22: the scan is over before a body is checked *)

\* place q comes before place p, in the order of the subunits and in them
Before(q, p) == q[1] < p[1] \/ (q[1] = p[1] /\ q[2] < p[2])

\* the first pass is under way
InScan == pc # "start" /\ Len(subunit_scopes) < Len(aunit)

\* the declaration at place p has been scanned
Scanned(p) ==
    /\ pc # "start"
    /\ InScan => Before(p, <<su, IF di = 0 THEN 1 ELSE di>>)

\* the names the declaration at place p gives to the objects of its scan
Declared(p) ==
    LET a == aunit[p[1]][p[2]]
    IN {a.ident}
       \cup (IF a.decl_type = "AST_DECL_TYPE" /\ a.type.storage = "ENUM"
             THEN {a.ident \o <<v.name>> : v \in Range(a.type.values)}
             ELSE {})

\* the kind of object the scan of a declaration inserts under its name
ObjectOf(a) ==
    CASE a.decl_type = "AST_DECL_CONST" -> "O_CONST"
      [] a.decl_type = "AST_DECL_TYPE" -> "O_TYPE"
      [] OTHER -> "O_DECL"

\* the objects of the unit scope
UnitObjects == IF ctx.unit = 0 THEN {} ELSE Range(ctx.scopes[ctx.unit].objects)

\* the unit scope holds the objects of the scanned declarations and no other
UnitHoldsScanned ==
    /\ \A p \in Positions : Scanned(p) =>
            \E o \in UnitObjects :
                /\ o.name = aunit[p[1]][p[2]].ident
                /\ o.otype = ObjectOf(aunit[p[1]][p[2]])
    /\ \A o \in UnitObjects :
            \E p \in Positions :
                Scanned(p) /\ {o.ident, o.name} \cap Declared(p) # {}

\* the unit scope is the parent of every subunit scope, and a subunit scope
\* holds no object
UnitAboveSubunits ==
    /\ \A s \in Range(subunit_scopes) :
            /\ ctx.scopes[s].parent = ctx.unit
            /\ ctx.scopes[s].objects = <<>>
    /\ pc = "scan" /\ di >= 1 => ctx.scopes[ctx.scope].objects = <<>>

\* no body and no initializer of a global is checked while the scan goes on
ScanComesFirst ==
    InScan =>
        /\ unit.declarations = <<>>
        /\ pc = "aborted" => aunit[su][di].decl_type = "AST_DECL_CONST"

\* a body or the initializer of a global is not refused for a name that a
\* declaration of the unit gives, wherever that declaration stands, and a
\* binding of a body declared with the name of a type has the type declared
BodiesSeeAll ==
    /\ (pc = "aborted" /\ ~InScan) =>
            \A p \in Positions : \A id \in Declared(p) :
                error # unknown_object(id)
    /\ \A n \in Checked : n.type = "EXPR_BINDING" =>
            \A i \in DOMAIN n.bindings :
                n.bindings[i].object.type.storage = "ALIAS" =>
                    \E o \in UnitObjects :
                        /\ o.otype = "O_TYPE"
                        /\ o.name = n.bindings[i].object.type.alias
                        /\ o.type = n.bindings[i].object.type.target

\* the initializer of a scanned constant names nothing but what was declared
\* before it, and the scan stops at a constant for an unknown object only
\* when no declaration before it gives the name
ConstantsSeeEarlier ==
    /\ \A p \in Positions :
            (Scanned(p) /\ aunit[p[1]][p[2]].decl_type = "AST_DECL_CONST") =>
                \A id \in Identifiers(aunit[p[1]][p[2]].init) :
                    \E q \in Positions : Before(q, p) /\ id \in Declared(q)
    /\ (pc = "aborted" /\ InScan) =>
            \A id \in Identifiers(Failing) :
                error = unknown_object(id) =>
                    ~\E q \in Positions :
                        Before(q, <<su, di>>) /\ id \in Declared(q)

\* C22: the scan of every subunit is over before a function body or the
\* initializer of a global is checked; the scanned objects all lie in the
\* one unit scope, the parent of every subunit scope; so a body or a
\* global's initializer finds what is declared later or in another subunit,
\* while the initializer of a constant finds only what was scanned before it
ScanBeforeCheck ==
    /\ ScanComesFirst
    /\ UnitHoldsScanned
    /\ UnitAboveSubunits
    /\ BodiesSeeAll
    /\ ConstantsSeeEarlier

\* the place of the declaration a typed function was checked from
PlaceOf(d) ==
    CHOOSE p \in Positions : aunit[p[1]][p[2]] = ADeclOf(d)

\* a checked body calls a function declared in a later subunit, the call
\* referring to the object of the unit scope
ScanBeforeCheckWitness ==
    /\ pc = "done"
    /\ \E d \in Functions : \E n \in nodes(d.body) :
        /\ n.type = "EXPR_ACCESS" /\ n.access_type = "ACCESS_IDENTIFIER"
        /\ n.object.scope = ctx.unit
        /\ \E q \in Positions :
            /\ q[1] > PlaceOf(d)[1]
            /\ n.object.name \in Declared(q)

\* the scan has stopped at a constant whose initializer names a constant
\* that is declared after it
ConstantRefusedForLater ==
    /\ pc = "aborted"
    /\ InScan
    /\ \E id \in Identifiers(Failing) :
        /\ error = unknown_object(id)
        /\ \E q \in Positions : Before(<<su, di>>, q) /\ id \in Declared(q)

-----------------------------------------------------------------------------
(* C23: the bindings of a list, each after its initializer *)

\* the statements of the outermost block of d that are bindings
BindingStmts(d) ==
    IF d.body.type # "EXPR_LIST" THEN {}
    ELSE {k \in DOMAIN d.body.exprs : d.body.exprs[k].type = "EXPR_BINDING"}

\* the context the initializer of the i-th binding of the k-th statement of
\* the outermost block of d is checked in, if the bindings before it are in
\* the scope and it is not
BeforeBinding(d, k, i) ==
    [ctx EXCEPT !.scope = d.body.scope, !.current_fntype = d.fntype,
                !.scopes[d.body.scope].objects =
                    SubSeq(@, 1, Bound(d.body.exprs, k) + i - 1)]

\* the type the i-th binding is declared with, NULL if it has none
DeclaredType(c, ab) ==
    IF ab.type = NULL THEN NULL
    ELSE LET t == type_store_lookup_atype(c, ab.type)
         IN type_store_lookup_with_flags(t, t.flags \cup ab.flags)

\* the i-th binding of statement k of d holds its initializer as checked
\* before the binding itself is in the scope
CheckedBefore(d, k, i) ==
    LET c == BeforeBinding(d, k, i)
        ab == ADeclOf(d).body.exprs[k].bindings[i]
        r == check_expression(c, ab.initializer, DeclaredType(c, ab))
    IN /\ r.err = OK
       /\ d.body.exprs[k].bindings[i].initializer
            = lower_implicit_cast(d.body.exprs[k].bindings[i].object.type,
                                  r.expr)

\* the objects of the bindings of statement k of d lie in the block's scope
\* in the order of the source, and no identifier of an initializer refers to
\* the object of its own binding or of a later one
InSourceOrder(d, k) ==
    \A i \in DOMAIN d.body.exprs[k].bindings :
        LET b == d.body.exprs[k].bindings[i]
            at == Bound(d.body.exprs, k) + i
        IN /\ b.object.scope = d.body.scope
           /\ b.object.index = at
           /\ at \in DOMAIN ctx.scopes[d.body.scope].objects
           /\ ctx.scopes[d.body.scope].objects[at] = b.object
           /\ b.object.name = <<ADeclOf(d).body.exprs[k].bindings[i].name>>
           /\ \A n \in nodes(b.initializer) :
                (/\ n.type = "EXPR_ACCESS"
                 /\ n.access_type = "ACCESS_IDENTIFIER"
                 /\ n.object.scope = d.body.scope) => n.object.index < at

\* a block that is one list of bindings, each initialized with a name or a
\* constant, and the closing return
PlainBindings(a) ==
    /\ a.type = "EXPR_LIST"
    /\ Len(a.exprs) = 2
    /\ a.exprs[1].type = "EXPR_BINDING"
    /\ \A b \in Range(a.exprs[1].bindings) : achildren(b.initializer) = {}

\* the bindings of the list bs whose initializer is a name that neither vis
\* nor a binding before it in the list gives
Dangling(bs, vis) ==
    {i \in DOMAIN bs :
        /\ bs[i].initializer.type = "EXPR_ACCESS"
        /\ bs[i].initializer.ident
            \notin vis \cup {<<bs[j].name>> : j \in 1..(i - 1)}}

\* the first of a non-empty set of places
First(S) == CHOOSE i \in S : \A j \in S : i <= j

\* a list of bindings is refused for an unknown object exactly at its first
\* binding whose initializer names neither an outer object nor a binding
\* before it, be it the binding's own name; a list that is checked has none
ResolvesEarlier ==
    /\ \A ia \in AFunctions :
            (/\ PlainBindings(ia[2].body)
             /\ \E d \in Functions : ADeclOf(d) = ia[2]) =>
                Dangling(ia[2].body.exprs[1].bindings,
                         Visible(ia[1], ia[2])) = {}
    /\ (/\ pc = "aborted" /\ su \in DOMAIN subunit_scopes
        /\ aunit[su][di].decl_type = "AST_DECL_FUNC"
        /\ PlainBindings(Failing)) =>
            LET bs == Failing.exprs[1].bindings
                bad == Dangling(bs, Visible(su, aunit[su][di]))
            IN /\ (\E i \in DOMAIN bs :
                        error = unknown_object(<<bs[i].name>>)
                        \/ (bs[i].initializer.type = "EXPR_ACCESS"
                            /\ error = unknown_object(bs[i].initializer.ident)))
                    => /\ bad # {}
                       /\ error = unknown_object(bs[First(bad)].initializer.ident)

\* C23: each binding of a list is inserted after its initializer is checked
\* and the bindings are taken in the order of the source: an initializer is
\* what its check gives in a scope that holds the bindings before it and not
\* its own, its identifiers refer to no binding at or after its own, and a
\* name given only by the binding itself or a later one is an unknown object
\* while a name given by an earlier binding of the list is found
BindingsAfterInitializers ==
    /\ \A d \in Functions : \A k \in BindingStmts(d) :
            /\ InSourceOrder(d, k)
            /\ \A i \in DOMAIN d.body.exprs[k].bindings : CheckedBefore(d, k, i)
    /\ ResolvesEarlier

\* a checked list whose second binding is initialized with the first, under
\* the name of a parameter that the first binding shadows
BindingsAfterInitializersWitness ==
    /\ pc = "done"
    /\ \E d \in Functions : \E k \in BindingStmts(d) :
        LET bs == d.body.exprs[k].bindings
        IN /\ Len(bs) >= 2
           /\ bs[1].object.name = <<"x">>
           /\ bs[2].initializer.type = "EXPR_ACCESS"
           /\ bs[2].initializer.object = bs[1].object

\* the check has stopped at a binding initialized with its own name
BindingRefusedForItself ==
    /\ pc = "aborted"
    /\ su \in DOMAIN subunit_scopes
    /\ aunit[su][di].decl_type = "AST_DECL_FUNC"
    /\ PlainBindings(Failing)
    /\ \E b \in Range(Failing.exprs[1].bindings) :
        /\ b.initializer = AIdent(<<b.name>>)
        /\ error = unknown_object(<<b.name>>)

\* a checked binding initialized with its own name, which is the parameter's
BindingOfOuter ==
    /\ pc = "done"
    /\ \E d \in Functions : \E k \in BindingStmts(d) :
        \E b \in Range(d.body.exprs[k].bindings) :
            /\ b.initializer.type = "EXPR_ACCESS"
            /\ b.initializer.object.name = b.object.name
            /\ b.initializer.object.scope = d.scope

====
